---- MODULE Spec2Model ----
(***************************************************************************)
(* Consultant Tracker backend: the account collections (recruiters,        *)
(* consultants, admins, with the mirrored users view), bearer-token        *)
(* authentication and role gates, and the job / submission handlers.       *)
(*                                                                         *)
(* Conventions.  An ObjectId string is a positive natural; 0 stands for a  *)
(* string that bson.ObjectId() rejects (InvalidId).  An Optional value is  *)
(* a set with at most one element: {} is None, {x} is x.  The database is  *)
(* the record db, one field per MongoDB collection, each a set of          *)
(* documents; users_up says whether the users collection accepts writes,   *)
(* faults names the collections whose point lookups currently raise a      *)
(* database error.  reg, subm and ups hold, per worker, the request that   *)
(* is between two of its database calls.  last is the response of the most *)
(* recent request.                                                         *)
(***************************************************************************)
EXTENDS Naturals, Integers, Sequences, FiniteSets, TLC

VARIABLES db, users_up, faults, uploads, nextId, now, tokens, reg, subm, ups, last

vars == <<db, users_up, faults, uploads, nextId, now, tokens, reg, subm, ups, last>>

----------------------------------------------------------------------------
(* Bounds of the model *)

MaxIds == 3
NumProcs == 2
MaxTokens == 1
MaxAuthIds == 2
MaxTime == 40
ClockStep == 40
MaxJobs == 2
MaxSubJobs == 1
MaxSubs == 1
MaxMirrorIds == 2
MaxOutageIds == 1
MaxRaceId == 8
MaxRefreshIds == 1
MaxRefreshTokens == 3
RefreshStep == 20
MaxRefreshTime == 60

(* Program constants *)

ACCESS_TOKEN_EXPIRE_MINUTES == 30
PASSWORD_MAX_BYTES == 72

----------------------------------------------------------------------------
(* Value sets *)

None == {}
Some(x) == {x}
MalformedId == 0

Roles == {"RECRUITER", "CONSULTANT", "ADMIN"}
Emails == {"a@x.io", "b@x.io"}
PwGood == <<112, 119, 48, 48, 48, 49>>
PwOther == <<112, 119, 48, 48, 48, 50>>
Passwords == {PwGood, PwOther}
Procs == 1..NumProcs

SubmissionStatus ==
    {"SUBMITTED", "INTERVIEW", "OFFER", "JOINED", "REJECTED", "ON_HOLD", "WITHDRAWN"}

(* JobDescriptionBase.status is a free string: "DRAFT" stands for any     *)
(* value other than the two the documentation names.                      *)
JobStatusStrings == {"OPEN", "CLOSED", "DRAFT"}

----------------------------------------------------------------------------
(* Passwords: the 72-byte truncation and the salted hash *)

IsContinuationByte(b) == (b \div 128) % 2 = 1 /\ (b \div 64) % 2 = 0

RECURSIVE StripIncomplete(_)
StripIncomplete(bytes) ==
    IF Len(bytes) > 0 /\ IsContinuationByte(bytes[Len(bytes)])
    THEN StripIncomplete(SubSeq(bytes, 1, Len(bytes) - 1))
    ELSE bytes

(* decode('utf-8', errors='ignore') of a prefix of valid UTF-8 whose      *)
(* trailing continuation bytes were stripped: a lead byte left at the end *)
(* has lost its continuation bytes and is dropped.                        *)
DecodeIgnore(bytes) ==
    IF Len(bytes) > 0 /\ bytes[Len(bytes)] >= 192
    THEN SubSeq(bytes, 1, Len(bytes) - 1)
    ELSE bytes

Truncate72(password) ==
    IF Len(password) > PASSWORD_MAX_BYTES
    THEN DecodeIgnore(StripIncomplete(SubSeq(password, 1, PASSWORD_MAX_BYTES)))
    ELSE password

get_password_hash(password) == [bcrypt |-> Truncate72(password)]

(* Mutant: the password is truncated when hashed, not when verified *)
verify_password_Untruncated(plain_password, hashed_password) ==
    plain_password = hashed_password.bcrypt

verify_password(plain_password, hashed_password) ==
    Truncate72(plain_password) = hashed_password.bcrypt

----------------------------------------------------------------------------
(* Collections *)

CollectionOf(role) ==
    CASE role = "RECRUITER" -> "recruiters"
      [] role = "CONSULTANT" -> "consultants"
      [] role = "ADMIN" -> "admins"

AccountCollections == {"recruiters", "consultants", "admins"}

(* find_one: the matching document, or None *)
FindOne(coll, Match(_)) ==
    IF \E d \in coll : Match(d)
    THEN Some(CHOOSE d \in coll : Match(d))
    ELSE None

FindByEmail(coll, email) == LET M(d) == d.email = email IN FindOne(coll, M)
FindById(coll, id) == LET M(d) == d._id = id IN FindOne(coll, M)

AllAccounts(d) == d.recruiters \cup d.consultants \cup d.admins

(* $set on the one document with this _id, if there is one *)
UpdateOne(coll, id, Set(_)) ==
    {IF d._id = id THEN Set(d) ELSE d : d \in coll}

DeleteOne(coll, id) == {d \in coll : d._id # id}

(* find_one({"_id": ObjectId(ref)}) on collection c as a secondary        *)
(* lookup: ObjectId() raises InvalidId for a malformed reference, the     *)
(* query raises while the collection is failing                           *)
Lookup(d, c, ref) ==
    IF ref = MalformedId THEN [outcome |-> "InvalidId", doc |-> None]
    ELSE IF c \in faults THEN [outcome |-> "error", doc |-> None]
    ELSE LET r == FindById(d[c], ref) IN
         [outcome |-> IF r = None THEN "missing" ELSE "found", doc |-> r]

(* The response of a listing: the status code and the rows *)
Rows(op, code, current_user, rows) ==
    [op |-> op, code |-> code, caller |-> current_user._id, rows |-> rows]

----------------------------------------------------------------------------
(* Initial state: an empty database, no request in flight *)

EmptyDb ==
    [recruiters |-> {}, consultants |-> {}, admins |-> {}, users |-> {},
     consultant_profiles |-> {}, recruiter_profiles |-> {},
     job_descriptions |-> {}, submissions |-> {}]

Idle == [p \in Procs |-> None]

Init ==
    /\ db = EmptyDb
    /\ users_up = TRUE
    /\ faults = {}
    /\ ups = Idle
    /\ uploads = {}
    /\ nextId = 1
    /\ now = 0
    /\ tokens = {}
    /\ reg = Idle
    /\ subm = Idle
    /\ last = [op |-> "none"]

(* No account creation, submission or profile upsert is between its steps *)
Quiet == reg = Idle /\ subm = Idle /\ ups = Idle

----------------------------------------------------------------------------
(* Account repositories: RecruiterRepository, ConsultantUserRepository,    *)
(* AdminRepository are the same code over three collections.               *)

UserCreate ==
    [email : Emails, name : {"Ann"}, role : Roles, is_active : BOOLEAN,
     password : {PwGood}]

(* Mutant: the existence check looks at one collection only *)
EmailTaken_RecruitersOnly(d, email) == FindByEmail(d.recruiters, email) # None

EmailTaken(d, email) ==
    \/ FindByEmail(d.recruiters, email) # None
    \/ FindByEmail(d.consultants, email) # None
    \/ FindByEmail(d.admins, email) # None

InFlight == Cardinality({p \in Procs : reg[p] # None})

(* create, steps 1-2: the existence check over the three collections *)
CreateCheck(p, user_data) ==
    /\ reg[p] = None
    /\ nextId + InFlight <= MaxIds
    /\ IF EmailTaken(db, user_data.email)
       THEN /\ last' = [op |-> "create", code |-> 400,
                        detail |-> "Email already exists"]
            /\ UNCHANGED reg
       ELSE /\ reg' = [reg EXCEPT ![p] = Some(user_data)]
            /\ UNCHANGED last
    /\ UNCHANGED <<db, users_up, faults, ups, uploads, nextId, now, tokens, subm>>

AccountDoc(id, user_data) ==
    [_id |-> id, email |-> user_data.email, name |-> user_data.name,
     role |-> user_data.role, is_active |-> user_data.is_active,
     hashed_password |-> get_password_hash(user_data.password),
     phone |-> None, updated_at |-> now]

(* Mutant: the account collections have no unique index on email *)
DuplicateKey_NoIndex(coll, doc) == FALSE

(* Mutant: the insert re-checks the email against every account collection *)
DuplicateKey_Global(coll, doc) ==
    \E a \in db.recruiters \cup db.consultants \cup db.admins : a.email = doc.email

(* insert_one into a collection with a unique index on email *)
DuplicateKey(coll, doc) == FindByEmail(coll, doc.email) # None

(* Mutant: a failed insert into users fails the registration *)
CreateInsert_MirrorFailureRaises(p) ==
    /\ reg[p] # None
    /\ LET user_data == CHOOSE u \in reg[p] : TRUE
           c == CollectionOf(user_data.role)
           doc == AccountDoc(nextId, user_data)
       IN IF DuplicateKey(db[c], doc)
          THEN /\ last' = [op |-> "create", code |-> 400,
                           detail |-> "Email already exists (duplicate key constraint)"]
               /\ UNCHANGED <<db, nextId>>
          ELSE IF ~users_up
          THEN /\ last' = [op |-> "create", code |-> 400,
                           detail |-> "Database error while creating user"]
               /\ UNCHANGED <<db, nextId>>
          ELSE /\ db' = [db EXCEPT ![c] = @ \cup {doc}, !.users = @ \cup {doc}]
               /\ nextId' = nextId + 1
               /\ last' = [op |-> "create", code |-> 200, detail |-> "User"]
    /\ reg' = [reg EXCEPT ![p] = None]
    /\ UNCHANGED <<users_up, faults, ups, uploads, now, tokens, subm>>

(* create, steps 3-6: hash, insert into the role collection, then the     *)
(* best-effort insert into users                                          *)
CreateInsert(p) ==
    /\ reg[p] # None
    /\ LET user_data == CHOOSE u \in reg[p] : TRUE
           c == CollectionOf(user_data.role)
           doc == AccountDoc(nextId, user_data)
       IN IF DuplicateKey(db[c], doc)
          THEN /\ last' = [op |-> "create", code |-> 400,
                           detail |-> "Email already exists (duplicate key constraint)"]
               /\ UNCHANGED <<db, nextId>>
          ELSE /\ db' = [db EXCEPT ![c] = @ \cup {doc},
                                   !.users = IF users_up THEN @ \cup {doc} ELSE @]
               /\ nextId' = nextId + 1
               /\ last' = [op |-> "create", code |-> 200, detail |-> "User"]
    /\ reg' = [reg EXCEPT ![p] = None]
    /\ UNCHANGED <<users_up, faults, ups, uploads, now, tokens, subm>>

NoUpdate == [name |-> None, role |-> None, is_active |-> None]

(* UserUpdate requests: no field, one field, or all three *)
UserUpdate ==
    {NoUpdate}
      \cup {[NoUpdate EXCEPT !.name = Some("Bob")]}
      \cup {[NoUpdate EXCEPT !.role = Some(r)] : r \in Roles}
      \cup {[NoUpdate EXCEPT !.is_active = Some(b)] : b \in BOOLEAN}
      \cup {[name |-> Some("Bob"), role |-> Some("ADMIN"), is_active |-> Some(FALSE)]}

(* $set of the given fields and of updated_at *)
ApplyUserUpdate(d, user_data) ==
    [d EXCEPT !.updated_at = now,
              !.name = IF user_data.name = None THEN @
                       ELSE CHOOSE x \in user_data.name : TRUE,
              !.role = IF user_data.role = None THEN @
                       ELSE CHOOSE x \in user_data.role : TRUE,
              !.is_active = IF user_data.is_active = None THEN @
                            ELSE CHOOSE x \in user_data.is_active : TRUE]

RepoResult(op, result) == [op |-> op, result |-> result]

(* update(id, UserUpdate) of the repository of collection c *)
Update(c, id, user_data) ==
    /\ IF id = MalformedId
       THEN /\ last' = RepoResult("update", "ValueError")
            /\ UNCHANGED db
       ELSE IF user_data = NoUpdate
       THEN /\ last' = RepoResult("update", "None")
            /\ UNCHANGED db
       ELSE LET Set(d) == ApplyUserUpdate(d, user_data) IN
            /\ db' = [db EXCEPT ![c] = UpdateOne(@, id, Set),
                                !.users = IF users_up THEN UpdateOne(@, id, Set) ELSE @]
            /\ last' = RepoResult("update",
                                  IF FindById(db[c], id) # None THEN "User" ELSE "None")
    /\ UNCHANGED <<users_up, faults, ups, uploads, nextId, now, tokens, reg, subm>>

(* delete(id): the users view is touched only if a document was deleted *)
Delete(c, id) ==
    /\ IF id = MalformedId
       THEN /\ last' = RepoResult("delete", "ValueError")
            /\ UNCHANGED db
       ELSE LET deleted == FindById(db[c], id) # None IN
            /\ db' = [db EXCEPT ![c] = DeleteOne(@, id),
                                !.users = IF deleted /\ users_up
                                          THEN DeleteOne(@, id) ELSE @]
            /\ last' = RepoResult("delete", IF deleted THEN "True" ELSE "False")
    /\ UNCHANGED <<users_up, faults, ups, uploads, nextId, now, tokens, reg, subm>>

(* deactivate(id) / activate(id): $set is_active and updated_at; the new  *)
(* updated_at makes every matched document a modified one                 *)
SetActive(c, id, active) ==
    /\ IF id = MalformedId
       THEN /\ last' = RepoResult(IF active THEN "activate" ELSE "deactivate",
                                  "ValueError")
            /\ UNCHANGED db
       ELSE LET modified == FindById(db[c], id) # None
                Set(d) == [d EXCEPT !.is_active = active, !.updated_at = now] IN
            /\ db' = [db EXCEPT ![c] = UpdateOne(@, id, Set),
                                !.users = IF modified /\ users_up
                                          THEN UpdateOne(@, id, Set) ELSE @]
            /\ last' = RepoResult(IF active THEN "activate" ELSE "deactivate",
                                  IF modified THEN "True" ELSE "False")
    /\ UNCHANGED <<users_up, faults, ups, uploads, nextId, now, tokens, reg, subm>>

----------------------------------------------------------------------------
(* Auth/session layer (core/auth.py, modules/auth/router.py) *)

(* Mutant: the probe starts with the admins *)
get_user_by_email_AdminsFirst(d, email) ==
    IF FindByEmail(d.admins, email) # None THEN FindByEmail(d.admins, email)
    ELSE IF FindByEmail(d.recruiters, email) # None THEN FindByEmail(d.recruiters, email)
    ELSE FindByEmail(d.consultants, email)

(* get_user_by_email: recruiters, then consultants, then admins *)
get_user_by_email(d, email) ==
    IF FindByEmail(d.recruiters, email) # None THEN FindByEmail(d.recruiters, email)
    ELSE IF FindByEmail(d.consultants, email) # None THEN FindByEmail(d.consultants, email)
    ELSE FindByEmail(d.admins, email)

(* Mutant: the password is not verified *)
authenticate_user_NoVerify(d, email, password) == get_user_by_email(d, email)

(* authenticate_user: the account, or None *)
authenticate_user(d, email, password) ==
    LET user == get_user_by_email(d, email) IN
    IF user = None THEN None
    ELSE IF ~verify_password(password, (CHOOSE u \in user : TRUE).hashed_password)
    THEN None
    ELSE user

(* create_access_token: the payload {sub, exp}.  uid is bookkeeping of    *)
(* the model (the account the token was issued to); it is not in the      *)
(* token and verification never reads it.                                 *)
create_access_token(email, uid) ==
    [sub |-> Some(email), exp |-> now + ACCESS_TOKEN_EXPIRE_MINUTES, uid |-> uid]

UserLogin == [email : Emails, password : Passwords]

(* POST /auth/login *)
Login(user_credentials) ==
    LET user == authenticate_user(db, user_credentials.email, user_credentials.password)
    IN
    /\ IF user = None
       THEN /\ last' = [op |-> "login", code |-> 401, token |-> None]
            /\ UNCHANGED tokens
       ELSE LET u == CHOOSE x \in user : TRUE IN
            IF ~u.is_active
            THEN /\ last' = [op |-> "login", code |-> 401, token |-> None]
                 /\ UNCHANGED tokens
            ELSE LET t == create_access_token(u.email, u._id) IN
                 /\ Cardinality(tokens \cup {t}) <= MaxTokens
                 /\ tokens' = tokens \cup {t}
                 /\ last' = [op |-> "login", code |-> 200, token |-> Some(t)]
    /\ UNCHANGED <<db, users_up, faults, ups, uploads, nextId, now, reg, subm>>

(* What a client can present: an issued token, an issued token whose      *)
(* signature does not verify (tampered or signed with another key), or a  *)
(* correctly signed token without a subject.                              *)
NoSubToken == [sub |-> None, exp |-> MaxTime + ACCESS_TOKEN_EXPIRE_MINUTES, uid |-> 0]

Credentials ==
    {[token |-> t, sig_ok |-> s] : t \in tokens, s \in BOOLEAN}
        \cup {[token |-> NoSubToken, sig_ok |-> TRUE]}

(* Mutant: the expiry is not checked *)
jwt_decode_ok_NoExpiry(cred) == cred.sig_ok

(* jwt.decode: the signature verifies and exp has not passed *)
jwt_decode_ok(cred) == cred.sig_ok /\ cred.token.exp >= now

(* Mutant: a deactivated account is not resolved *)
get_current_user_ActiveOnly(d, cred) ==
    IF ~jwt_decode_ok(cred) THEN None
    ELSE IF cred.token.sub = None THEN None
    ELSE {u \in get_user_by_email(d, CHOOSE e \in cred.token.sub : TRUE) : u.is_active}

(* get_current_user: the resolved account, or None for the 401 *)
get_current_user(d, cred) ==
    IF ~jwt_decode_ok(cred) THEN None
    ELSE IF cred.token.sub = None THEN None
    ELSE get_user_by_email(d, CHOOSE e \in cred.token.sub : TRUE)

RoleOf(user) == {u.role : u \in user}
IdOf(user) == {u._id : u \in user}

(* GET /auth/me *)
GetMe(cred) ==
    LET user == get_current_user(db, cred) IN
    /\ last' = [op |-> "me", code |-> IF user = None THEN 401 ELSE 200,
                id |-> IdOf(user), role |-> RoleOf(user)]
    /\ UNCHANGED <<db, users_up, faults, ups, uploads, nextId, now, tokens, reg, subm>>

(* POST /auth/refresh: a new token for the resolved account *)
Refresh(cred) ==
    LET user == get_current_user(db, cred) IN
    /\ IF user = None
       THEN /\ last' = [op |-> "refresh", code |-> 401, token |-> None]
            /\ UNCHANGED tokens
       ELSE LET u == CHOOSE x \in user : TRUE
                t == create_access_token(u.email, u._id) IN
            /\ Cardinality(tokens \cup {t}) <= MaxRefreshTokens
            /\ tokens' = tokens \cup {t}
            /\ last' = [op |-> "refresh", code |-> 200, token |-> Some(t)]
    /\ UNCHANGED <<db, users_up, faults, ups, uploads, nextId, now, reg, subm>>

(* The clock *)
Tick ==
    /\ now + ClockStep <= MaxTime
    /\ now' = now + ClockStep
    /\ UNCHANGED <<db, users_up, faults, ups, uploads, nextId, tokens, reg, subm, last>>

----------------------------------------------------------------------------
(* Role gates: the dependencies of core/auth.py and the inline role       *)
(* checks of the /consultants/me and /recruiters/me endpoints             *)

(* Mutant: no implicit admin bypass *)
require_role_NoAdmin(required_role, role) == ~(role # required_role)

require_role(required_role, role) == ~(role # required_role /\ role # "ADMIN")
require_admin(role) == ~(role # "ADMIN")
(* Mutant: the gate admits every role *)
require_recruiter_or_admin_Any(role) == TRUE

require_recruiter_or_admin(role) == role \in {"RECRUITER", "ADMIN"}
require_consultant_or_admin(role) == role \in {"CONSULTANT", "ADMIN"}
consultants_me_check(role) == ~(role # "CONSULTANT")
recruiters_me_check(role) == ~(role # "RECRUITER")

DecoratorGates ==
    {"require_role(RECRUITER)", "require_role(CONSULTANT)", "require_role(ADMIN)",
     "require_admin", "require_recruiter_or_admin", "require_consultant_or_admin"}
InlineGates == {"consultants/me", "recruiters/me"}
Gates == DecoratorGates \cup InlineGates

Admits(gate, role) ==
    CASE gate = "require_role(RECRUITER)" -> require_role("RECRUITER", role)
      [] gate = "require_role(CONSULTANT)" -> require_role("CONSULTANT", role)
      [] gate = "require_role(ADMIN)" -> require_role("ADMIN", role)
      [] gate = "require_admin" -> require_admin(role)
      [] gate = "require_recruiter_or_admin" -> require_recruiter_or_admin(role)
      [] gate = "require_consultant_or_admin" -> require_consultant_or_admin(role)
      [] gate = "consultants/me" -> consultants_me_check(role)
      [] gate = "recruiters/me" -> recruiters_me_check(role)

(* A request to an endpoint behind the gate: get_current_user (401), then *)
(* the role check (403), then the handler runs (200)                      *)
Gated(cred, gate) ==
    LET user == get_current_user(db, cred) IN
    /\ last' = [op |-> "gate", gate |-> gate, role |-> RoleOf(user),
                code |-> IF user = None THEN 401
                         ELSE IF Admits(gate, (CHOOSE u \in user : TRUE).role)
                         THEN 200 ELSE 403]
    /\ UNCHANGED <<db, users_up, faults, ups, uploads, nextId, now, tokens, reg, subm>>

----------------------------------------------------------------------------
(* The account repositories under concurrent and serialized execution *)

Ids == 0..MaxIds

Next ==
    \/ \E p \in Procs, user_data \in UserCreate : CreateCheck(p, user_data)
    \/ \E p \in Procs : CreateInsert(p)
    \/ \E c \in AccountCollections, id \in Ids : Delete(c, id)

Spec == Init /\ [][Next]_vars

(* Serialized execution: a request starts only when none is in flight *)
NextSerial ==
    \/ \E p \in Procs, user_data \in UserCreate : Quiet /\ CreateCheck(p, user_data)
    \/ \E p \in Procs : CreateInsert(p)
    \/ \E c \in AccountCollections, id \in Ids : Quiet /\ Delete(c, id)

SpecSerial == Init /\ [][NextSerial]_vars

----------------------------------------------------------------------------
(* Accounts and sessions: registration, account maintenance, login and    *)
(* authenticated requests, one request at a time                          *)

(* The account updates issued here: nothing, or a promotion to ADMIN *)
AuthUpdates == {u \in UserUpdate : u.name = None /\ u.is_active = None
                                     /\ u.role \in {None, Some("ADMIN")}}
AuthIds == 0..MaxAuthIds

NextAuth ==
    \/ \E p \in Procs, user_data \in UserCreate :
          Quiet /\ nextId <= MaxAuthIds /\ CreateCheck(p, user_data)
    \/ \E p \in Procs : CreateInsert(p)
    \/ \E c \in AccountCollections, id \in AuthIds, user_data \in AuthUpdates :
          Quiet /\ Update(c, id, user_data)
    \/ \E c \in AccountCollections, id \in AuthIds : Quiet /\ Delete(c, id)
    \/ \E c \in AccountCollections, id \in AuthIds, active \in BOOLEAN :
          Quiet /\ SetActive(c, id, active)
    \/ \E user_credentials \in UserLogin : Quiet /\ Login(user_credentials)
    \/ \E cred \in Credentials : Quiet /\ GetMe(cred)
    \/ Quiet /\ Tick

SpecAuth == Init /\ [][NextAuth]_vars

(* Role-gated requests by accounts of every role *)
NextGates ==
    \/ \E p \in Procs, user_data \in UserCreate :
          Quiet /\ nextId <= MaxAuthIds /\ CreateCheck(p, user_data)
    \/ \E p \in Procs : CreateInsert(p)
    \/ \E user_credentials \in UserLogin : Quiet /\ Login(user_credentials)
    \/ \E cred \in Credentials, gate \in Gates : Quiet /\ Gated(cred, gate)

SpecGates == Init /\ [][NextGates]_vars

(* One consultant registers, logs in, is deactivated or activated, and    *)
(* keeps calling GET /auth/me and POST /auth/refresh while the clock      *)
(* advances in steps shorter than a token's lifetime                      *)
RefreshCreates ==
    {user_data \in UserCreate :
        user_data.email = "a@x.io" /\ user_data.role = "CONSULTANT" /\ user_data.is_active}

RefreshIds == 0..MaxRefreshIds

ShortTick ==
    /\ now + RefreshStep <= MaxRefreshTime
    /\ now' = now + RefreshStep
    /\ UNCHANGED <<db, users_up, faults, ups, uploads, nextId, tokens, reg, subm, last>>

NextRefresh ==
    \/ \E p \in Procs, user_data \in RefreshCreates :
          Quiet /\ nextId <= MaxRefreshIds /\ CreateCheck(p, user_data)
    \/ \E p \in Procs : CreateInsert(p)
    \/ \E id \in RefreshIds, active \in BOOLEAN : Quiet /\ SetActive("consultants", id, active)
    \/ \E user_credentials \in UserLogin : Quiet /\ Login(user_credentials)
    \/ \E cred \in Credentials : Quiet /\ GetMe(cred)
    \/ \E cred \in Credentials : Quiet /\ Refresh(cred)
    \/ Quiet /\ ShortTick

SpecRefresh == Init /\ [][NextRefresh]_vars

(* Overlapping registrations of active accounts, which can leave one      *)
(* email in several collections, with logins and GET /auth/me             *)
ProbeCreates == {user_data \in UserCreate : user_data.is_active}

NextProbe ==
    \/ \E p \in Procs, user_data \in ProbeCreates : CreateCheck(p, user_data)
    \/ \E p \in Procs : CreateInsert(p)
    \/ \E user_credentials \in UserLogin : Login(user_credentials)
    \/ \E cred \in Credentials : GetMe(cred)

SpecProbe == Init /\ [][NextProbe]_vars

----------------------------------------------------------------------------
(* Jobs (modules/jobs) *)

(* JobDescriptionCreate / JobDescriptionUpdate, reduced to the title and  *)
(* status fields; an update names a status or no field at all             *)
(* The body of POST /jobs/: the status field may be left out *)
JobCreateBody == [title : {"Dev"}, status : {None} \cup {Some(s) : s \in JobStatusStrings}]

(* Mutant: a body without status is given the status CLOSED *)
JobDescriptionCreate_of_DefaultClosed(body) ==
    [title |-> body.title,
     status |-> IF body.status = None THEN "CLOSED" ELSE CHOOSE x \in body.status : TRUE]

(* The JobDescriptionCreate model of a body: status defaults to "OPEN" *)
JobDescriptionCreate_of(body) ==
    [title |-> body.title,
     status |-> IF body.status = None THEN "OPEN" ELSE CHOOSE x \in body.status : TRUE]

JobDescriptionCreate == {JobDescriptionCreate_of(body) : body \in JobCreateBody}
JobDescriptionUpdate == [status : {None} \cup {Some(s) : s \in JobStatusStrings}]

(* The status query parameter of GET /jobs/: absent, empty, or a string *)
StatusParams == {None} \cup {Some(s) : s \in JobStatusStrings \cup {""}}

(* JobRepository.create: the inserted document *)
JobRepository_create(id, jd_data, recruiter_id) ==
    [_id |-> id, recruiter_id |-> recruiter_id, title |-> jd_data.title,
     status |-> jd_data.status, created_at |-> now, updated_at |-> now]

(* _merge_recruiter_data: name and email of the job's recruiter, looked   *)
(* up in db.recruiters.  A row is the stored document with its joined     *)
(* fields, each an Optional.                                              *)
merge_recruiter_data(d, jd_doc) ==
    LET user_data == Lookup(d, "recruiters", jd_doc.recruiter_id) IN
    [doc |-> jd_doc,
     recruiter_name |->
        CASE user_data.outcome = "found" -> {u.name : u \in user_data.doc}
          [] user_data.outcome = "missing" -> Some("Unknown Recruiter")
          [] user_data.outcome = "InvalidId" -> Some("Invalid ID")
          [] user_data.outcome = "error" -> Some("Error Loading Recruiter"),
     recruiter_email |->
        IF user_data.outcome = "found"
        THEN {u.email : u \in user_data.doc} ELSE Some("N/A")]

(* JobRepository.get_all(status): "if status:" skips None and "" *)
JobRepository_get_all(d, status) ==
    {merge_recruiter_data(d, doc) :
        doc \in IF status = None \/ status = Some("")
                THEN d.job_descriptions
                ELSE {j \in d.job_descriptions : Some(j.status) = status}}

(* JobRepository.get_by_id: InvalidId is raised for a malformed id *)
JobRepository_get_by_id(d, jd_id) ==
    IF jd_id = MalformedId THEN [raised |-> "InvalidId", jd |-> None]
    ELSE [raised |-> "",
          jd |-> {merge_recruiter_data(d, doc) :
                     doc \in FindById(d.job_descriptions, jd_id)}]

(* Mutant: the update does not compare the caller with the owner *)
JobRepository_update_NoOwnerCheck(d, jd_id, jd_data, recruiter_id) ==
    IF jd_id = MalformedId THEN [result |-> "InvalidId", db |-> d]
    ELSE IF FindById(d.job_descriptions, jd_id) = None
    THEN [result |-> "None", db |-> d]
    ELSE LET Set(j) == [j EXCEPT !.status = IF jd_data.status = None THEN @
                                           ELSE CHOOSE x \in jd_data.status : TRUE,
                                !.updated_at = now]
         IN [result |-> "JobDescription",
             db |-> [d EXCEPT !.job_descriptions = UpdateOne(@, jd_id, Set)]]

(* JobRepository.update: None for an unknown job, ValueError for a caller *)
(* other than the stored recruiter_id, else $set of the given fields      *)
JobRepository_update(d, jd_id, jd_data, recruiter_id) ==
    IF jd_id = MalformedId THEN [result |-> "InvalidId", db |-> d]
    ELSE LET jd == FindById(d.job_descriptions, jd_id) IN
    IF jd = None THEN [result |-> "None", db |-> d]
    ELSE IF (CHOOSE j \in jd : TRUE).recruiter_id # recruiter_id
    THEN [result |-> "ValueError", db |-> d]
    ELSE LET Set(j) == [j EXCEPT !.status = IF jd_data.status = None THEN @
                                           ELSE CHOOSE x \in jd_data.status : TRUE,
                                !.updated_at = now]
         IN [result |-> "JobDescription",
             db |-> [d EXCEPT !.job_descriptions = UpdateOne(@, jd_id, Set)]]

(* The response of a handler: the status code, with the caller and the    *)
(* id the request named or created                                        *)
Resp(op, code, current_user, id) ==
    [op |-> op, code |-> code, caller |-> current_user._id, id |-> id]

(* POST /jobs/ *)
create_job(current_user, jd_data) ==
    /\ IF ~require_recruiter_or_admin(current_user.role)
       THEN /\ last' = Resp("create_job", 403, current_user, None)
            /\ UNCHANGED <<db, nextId>>
       ELSE /\ db' = [db EXCEPT !.job_descriptions =
                        @ \cup {JobRepository_create(nextId, jd_data, current_user._id)}]
            /\ nextId' = nextId + 1
            /\ last' = Resp("create_job", 200, current_user, Some(nextId))
    /\ UNCHANGED <<users_up, faults, ups, uploads, now, tokens, reg, subm>>

(* PUT /jobs/{jd_id}: ValueError becomes 403, None becomes 404, any other *)
(* exception is unhandled (500)                                           *)
update_job(current_user, jd_id, jd_data) ==
    /\ IF ~require_recruiter_or_admin(current_user.role)
       THEN /\ last' = Resp("update_job", 403, current_user, Some(jd_id))
            /\ UNCHANGED db
       ELSE LET r == JobRepository_update(db, jd_id, jd_data, current_user._id) IN
            /\ db' = r.db
            /\ last' = Resp("update_job",
                            CASE r.result = "InvalidId" -> 500
                              [] r.result = "None" -> 404
                              [] r.result = "ValueError" -> 403
                              [] r.result = "JobDescription" -> 200,
                            current_user, Some(jd_id))
    /\ UNCHANGED <<users_up, faults, ups, uploads, nextId, now, tokens, reg, subm>>

(* Mutant: the caller's status parameter is used for every role *)
ListingStatus_PassThrough(role, status) == status

(* get_jobs: the status filter handed to the repository *)
ListingStatus(role, status) ==
    IF role = "CONSULTANT" THEN Some("OPEN") ELSE status

(* GET /jobs/{jd_id}: an exception of the repository is unhandled (500)  *)
get_job(current_user, jd_id) ==
    LET r == JobRepository_get_by_id(db, jd_id) IN
    /\ last' = [op |-> "get_job", code |-> IF r.raised # "" THEN 500
                                          ELSE IF r.jd = None THEN 404 ELSE 200,
                caller |-> current_user._id, id |-> Some(jd_id), rows |-> r.jd]
    /\ UNCHANGED <<db, users_up, faults, ups, uploads, nextId, now, tokens, reg, subm>>

(* GET /jobs/?status= *)
get_jobs(current_user, status) ==
    /\ last' = [op |-> "get_jobs", code |-> 200, caller |-> current_user._id,
                status |-> status,
                jobs |-> JobRepository_get_all(db, ListingStatus(current_user.role, status))]
    /\ UNCHANGED <<db, users_up, faults, ups, uploads, nextId, now, tokens, reg, subm>>

----------------------------------------------------------------------------
(* Profiles (modules/consultants, modules/recruiters).  A profile is keyed *)
(* by the id of its account: consultant_id in consultant_profiles,         *)
(* recruiter_id in recruiter_profiles, each under a unique index.          *)

ProfileCollections == {"consultant_profiles", "recruiter_profiles"}

ProfileKey(c, pr) ==
    IF c = "consultant_profiles" THEN pr.consultant_id ELSE pr.recruiter_id

(* find_one({"consultant_id": user_id}) / find_one({"recruiter_id": user_id}) *)
FindProfile(d, c, user_id) ==
    LET M(pr) == ProfileKey(c, pr) = user_id IN FindOne(d[c], M)

(* ConsultantProfileUpdate, reduced to four of its optional fields *)
NoProfileUpdate ==
    [experience_years |-> None, tech_stack |-> None, phone |-> None,
     resume_path |-> None]

ConsultantProfileUpdate ==
    {NoProfileUpdate,
     [NoProfileUpdate EXCEPT !.experience_years = Some(5)],
     [NoProfileUpdate EXCEPT !.tech_stack = Some(<<"tla">>)],
     [NoProfileUpdate EXCEPT !.phone = Some("555")]}

(* RecruiterProfileUpdate, reduced to two of its optional fields *)
NoRecruiterUpdate == [company_name |-> None, location |-> None]

RecruiterProfileUpdate ==
    {NoRecruiterUpdate,
     [NoRecruiterUpdate EXCEPT !.company_name = Some("Acme")],
     [NoRecruiterUpdate EXCEPT !.location = Some("Oslo")]}

(* Mutant: a tech stack in the request is appended to the stored one *)
ConsultantSet_Append(pr, profile_data) ==
    [pr EXCEPT !.experience_years =
                  IF profile_data.experience_years = None THEN @
                  ELSE CHOOSE x \in profile_data.experience_years : TRUE,
               !.tech_stack =
                  IF profile_data.tech_stack = None THEN @
                  ELSE @ \o (CHOOSE x \in profile_data.tech_stack : TRUE),
               !.resume_path =
                  IF profile_data.resume_path = None THEN @
                  ELSE profile_data.resume_path,
               !.updated_at = now]

(* create_or_update, the $set document: the non-None fields of the        *)
(* request without phone and email, and updated_at                        *)
ConsultantSet(pr, profile_data) ==
    [pr EXCEPT !.experience_years =
                  IF profile_data.experience_years = None THEN @
                  ELSE CHOOSE x \in profile_data.experience_years : TRUE,
               !.tech_stack =
                  IF profile_data.tech_stack = None THEN @
                  ELSE CHOOSE x \in profile_data.tech_stack : TRUE,
               !.resume_path =
                  IF profile_data.resume_path = None THEN @
                  ELSE profile_data.resume_path,
               !.updated_at = now]

(* create_or_update, the $setOnInsert document in a fresh document: the   *)
(* key, created_at and the two defaults; resume_path is absent            *)
ConsultantDefaults(id, user_id) ==
    [_id |-> id, consultant_id |-> user_id, created_at |-> now,
     tech_stack |-> <<>>, experience_years |-> 0, resume_path |-> None,
     updated_at |-> now]

(* update_profile, the $set document *)
RecruiterSet(pr, profile_data) ==
    [pr EXCEPT !.company_name =
                  IF profile_data.company_name = None THEN @
                  ELSE profile_data.company_name,
               !.location =
                  IF profile_data.location = None THEN @
                  ELSE profile_data.location,
               !.updated_at = now]

(* update_profile, the $setOnInsert document in a fresh document *)
RecruiterDefaults(id, user_id) ==
    [_id |-> id, recruiter_id |-> user_id, created_at |-> now,
     company_name |-> None, location |-> None, updated_at |-> now]

ProfileSet(c, pr, profile_data) ==
    IF c = "consultant_profiles" THEN ConsultantSet(pr, profile_data)
    ELSE RecruiterSet(pr, profile_data)

ProfileDefaults(c, id, user_id) ==
    IF c = "consultant_profiles" THEN ConsultantDefaults(id, user_id)
    ELSE RecruiterDefaults(id, user_id)

(* create_or_update, the phone step: a phone in the request is written to *)
(* the consultant's account, not to the profile                           *)
PhoneWrite(d, c, user_id, profile_data) ==
    IF c # "consultant_profiles" \/ user_id = MalformedId THEN d
    ELSE IF profile_data.phone = None THEN d
    ELSE LET Set(a) == [a EXCEPT !.phone = profile_data.phone, !.updated_at = now]
         IN [d EXCEPT !.consultants = UpdateOne(@, user_id, Set)]

(* Mutant: the matched profile is replaced by a fresh document *)
ProfileUpdate_Replace(d, c, user_id, profile_data) ==
    [d EXCEPT ![c] = {IF ProfileKey(c, pr) = user_id
                      THEN ProfileSet(c, ProfileDefaults(c, pr._id, user_id),
                                      profile_data)
                      ELSE pr : pr \in @}]

(* $set on the profile the query matched *)
ProfileUpdate(d, c, user_id, profile_data) ==
    [d EXCEPT ![c] = {IF ProfileKey(c, pr) = user_id
                      THEN ProfileSet(c, pr, profile_data) ELSE pr : pr \in @}]

(* the insert of an upsert that matched nothing *)
ProfileInsert(d, c, id, user_id, profile_data) ==
    [d EXCEPT ![c] = @ \cup {ProfileSet(c, ProfileDefaults(c, id, user_id),
                                        profile_data)}]

(* update_one(..., upsert=True) run without interference, after the phone *)
(* step: $set on the matching profile, or one insert when none matches    *)
Upsert(d, c, id, user_id, profile_data) ==
    LET d1 == PhoneWrite(d, c, user_id, profile_data) IN
    IF FindProfile(d1, c, user_id) = None
    THEN ProfileInsert(d1, c, id, user_id, profile_data)
    ELSE ProfileUpdate(d1, c, user_id, profile_data)

(* ConsultantRepository.create_or_update *)
ConsultantRepository_create_or_update(d, id, user_id, profile_data) ==
    Upsert(d, "consultant_profiles", id, user_id, profile_data)

(* RecruiterRepository.update_profile *)
RecruiterRepository_update_profile(d, id, user_id, profile_data) ==
    Upsert(d, "recruiter_profiles", id, user_id, profile_data)

(* _merge_user_data: name, email and phone of the consultant's account.   *)
(* InvalidId and a database error set the name only.                      *)
merge_user_data(d, profile_doc) ==
    LET user_data == Lookup(d, "consultants", profile_doc.consultant_id) IN
    [doc |-> Some(profile_doc),
     name |-> CASE user_data.outcome = "found" -> {u.name : u \in user_data.doc}
                [] user_data.outcome = "missing" -> Some("Unknown User")
                [] user_data.outcome = "InvalidId" -> Some("Invalid ID")
                [] user_data.outcome = "error" -> Some("Error Loading User"),
     email |-> CASE user_data.outcome = "found" -> {u.email : u \in user_data.doc}
                 [] user_data.outcome = "missing" -> Some("N/A")
                 [] OTHER -> None,
     phone |-> IF user_data.outcome = "found"
               THEN LET u == CHOOSE x \in user_data.doc : TRUE IN
                    IF u.phone = None THEN Some("") ELSE u.phone
               ELSE None]

(* ConsultantRepository.get_by_user_id: the merged profile, or None *)
ConsultantRepository_get_by_user_id(d, user_id) ==
    {merge_user_data(d, pr) : pr \in FindProfile(d, "consultant_profiles", user_id)}

(* ConsultantRepository.get_all *)
ConsultantRepository_get_all(d) ==
    {merge_user_data(d, pr) : pr \in d.consultant_profiles}

(* RecruiterRepository.get_profile_by_user_id: name and email are set     *)
(* only when the account is found in db.recruiters                        *)
RecruiterRepository_get_profile_by_user_id(d, user_id) ==
    LET user_data == Lookup(d, "recruiters", user_id) IN
    {[doc |-> Some(pr),
      name |-> IF user_data.outcome = "found"
               THEN {u.name : u \in user_data.doc} ELSE None,
      email |-> IF user_data.outcome = "found"
                THEN {u.email : u \in user_data.doc} ELSE None,
      phone |-> None] : pr \in FindProfile(d, "recruiter_profiles", user_id)}

(* The stored profile read back at the end of an upsert *)
ReadProfile(d, c, user_id) ==
    IF c = "consultant_profiles" THEN ConsultantRepository_get_by_user_id(d, user_id)
    ELSE RecruiterRepository_get_profile_by_user_id(d, user_id)

(* An upsert between its database calls: the handler it belongs to, the   *)
(* collection, the key, the request, and for a resume upload the file     *)
(* written and the resume_path read before the write                      *)
UpsertRequest(op, c, user_id, profile_data, file_path, old_resume_path) ==
    [op |-> op, c |-> c, user_id |-> user_id, data |-> profile_data,
     stage |-> "query", file_path |-> file_path, old |-> old_resume_path]

(* The end of the handler that ran the upsert.  create_submission logs a  *)
(* failed profile step and goes on; upload_resume deletes the previous    *)
(* file after a successful write; a failure is a 500                      *)
Finish(p, rq, d, ok) ==
    /\ ups' = [ups EXCEPT ![p] = None]
    /\ last' = IF rq.op = "create_submission" THEN last
               ELSE [op |-> rq.op, code |-> IF ok THEN 200 ELSE 500,
                     caller |-> rq.user_id,
                     rows |-> IF ok THEN ReadProfile(d, rq.c, rq.user_id) ELSE {}]
    /\ uploads' = IF rq.op = "upload_resume" /\ ok /\ rq.old # rq.file_path
                  THEN uploads \ rq.old ELSE uploads

(* update_one(..., upsert=True), the query: the phone step, then $set on  *)
(* the matching profile; when none matches the insert is still to come    *)
UpsertApply(p) ==
    /\ ups[p] # None
    /\ LET rq == CHOOSE x \in ups[p] : TRUE
           d1 == PhoneWrite(db, rq.c, rq.user_id, rq.data)
       IN /\ rq.stage = "query"
          /\ IF FindProfile(d1, rq.c, rq.user_id) = None
             THEN /\ db' = d1
                  /\ ups' = [ups EXCEPT ![p] = Some([rq EXCEPT !.stage = "insert"])]
                  /\ UNCHANGED <<last, uploads>>
             ELSE LET d2 == ProfileUpdate(d1, rq.c, rq.user_id, rq.data) IN
                  /\ db' = d2
                  /\ Finish(p, rq, d2, TRUE)
    /\ UNCHANGED <<users_up, faults, nextId, now, tokens, reg, subm>>

(* Mutant: the profile collections have no unique index *)
UniqueIndexHit_NoIndex(d, c, user_id) == FALSE

(* The unique index on the key refuses a second profile *)
UniqueIndexHit(d, c, user_id) == FindProfile(d, c, user_id) # None

(* update_one(..., upsert=True), the insert.  When another request has    *)
(* inserted the key meanwhile the unique index refuses it: the server     *)
(* either retries the operation as an update or reports DuplicateKeyError *)
UpsertInsert(p, retried) ==
    /\ ups[p] # None
    /\ LET rq == CHOOSE x \in ups[p] : TRUE IN
       /\ rq.stage = "insert"
       /\ IF ~UniqueIndexHit(db, rq.c, rq.user_id)
          THEN LET d2 == ProfileInsert(db, rq.c, nextId, rq.user_id, rq.data) IN
               /\ db' = d2
               /\ nextId' = nextId + 1
               /\ Finish(p, rq, d2, TRUE)
          ELSE IF retried
          THEN LET d2 == ProfileUpdate(db, rq.c, rq.user_id, rq.data) IN
               /\ db' = d2
               /\ UNCHANGED nextId
               /\ Finish(p, rq, d2, TRUE)
          ELSE /\ UNCHANGED <<db, nextId>>
               /\ Finish(p, rq, db, FALSE)
    /\ UNCHANGED <<users_up, faults, now, tokens, reg, subm>>

(* A profile endpoint's answer without an upsert *)
ProfileResp(op, code, current_user, rows) ==
    /\ last' = Rows(op, code, current_user, rows)
    /\ UNCHANGED <<db, users_up, faults, ups, uploads, nextId, now, tokens, reg, subm>>

(* A profile endpoint that goes on to create_or_update / update_profile *)
StartUpsert(p, rq) ==
    /\ ups' = [ups EXCEPT ![p] = Some(rq)]
    /\ UNCHANGED <<db, users_up, faults, uploads, nextId, now, tokens, reg, subm, last>>

(* GET /consultants/me: a consultant without a profile gets one created   *)
consultants_get_my_profile(p, current_user) ==
    /\ ups[p] = None
    /\ LET profile == ConsultantRepository_get_by_user_id(db, current_user._id) IN
       IF ~consultants_me_check(current_user.role)
       THEN ProfileResp("consultants_get_my_profile", 403, current_user, {})
       ELSE IF profile = None
       THEN StartUpsert(p, UpsertRequest(
                "consultants_get_my_profile", "consultant_profiles", current_user._id,
                [NoProfileUpdate EXCEPT !.experience_years = Some(0)], None, None))
       ELSE ProfileResp("consultants_get_my_profile", 200, current_user, profile)

(* PUT /consultants/me *)
consultants_update_my_profile(p, current_user, profile_data) ==
    /\ ups[p] = None
    /\ IF ~consultants_me_check(current_user.role)
       THEN ProfileResp("consultants_update_my_profile", 403, current_user, {})
       ELSE StartUpsert(p, UpsertRequest(
                "consultants_update_my_profile", "consultant_profiles",
                current_user._id, profile_data, None, None))

(* GET /consultants/ *)
get_all_consultants(current_user) ==
    IF ~require_recruiter_or_admin(current_user.role)
    THEN ProfileResp("get_all_consultants", 403, current_user, {})
    ELSE ProfileResp("get_all_consultants", 200, current_user,
                     ConsultantRepository_get_all(db))

(* GET /consultants/{user_id} *)
get_consultant_profile(current_user, user_id) ==
    LET profile == ConsultantRepository_get_by_user_id(db, user_id) IN
    IF ~require_recruiter_or_admin(current_user.role)
    THEN ProfileResp("get_consultant_profile", 403, current_user, {})
    ELSE IF profile = None
    THEN ProfileResp("get_consultant_profile", 404, current_user, {})
    ELSE ProfileResp("get_consultant_profile", 200, current_user, profile)

(* POST /consultants/me/resume with an accepted file: the file is written *)
(* under the caller's id and the second of the clock, the stored          *)
(* resume_path is read, and the profile is upserted with the new path     *)
upload_resume(p, current_user) ==
    /\ ups[p] = None
    /\ IF ~consultants_me_check(current_user.role)
       THEN ProfileResp("upload_resume", 403, current_user, {})
       ELSE LET file_path == [owner |-> current_user._id, resume |-> now]
                profile == ConsultantRepository_get_by_user_id(db, current_user._id)
                old_resume_path == UNION {UNION {pr.resume_path : pr \in row.doc} :
                                             row \in profile}
            IN /\ uploads' = uploads \cup {file_path}
               /\ ups' = [ups EXCEPT ![p] = Some(UpsertRequest(
                             "upload_resume", "consultant_profiles", current_user._id,
                             [NoProfileUpdate EXCEPT !.resume_path = Some(file_path)],
                             Some(file_path), old_resume_path))]
               /\ UNCHANGED <<db, users_up, faults, nextId, now, tokens, reg, subm, last>>

(* GET /recruiters/me: a recruiter without a profile gets an answer built *)
(* from the account; nothing is stored                                    *)
recruiters_get_my_profile(current_user) ==
    LET profile == RecruiterRepository_get_profile_by_user_id(db, current_user._id) IN
    IF ~recruiters_me_check(current_user.role)
    THEN ProfileResp("recruiters_get_my_profile", 403, current_user, {})
    ELSE IF profile = None
    THEN ProfileResp("recruiters_get_my_profile", 200, current_user,
                     {[doc |-> None, name |-> Some(current_user.name),
                       email |-> Some(current_user.email), phone |-> None]})
    ELSE ProfileResp("recruiters_get_my_profile", 200, current_user, profile)

(* PUT /recruiters/me *)
recruiters_update_my_profile(p, current_user, profile_data) ==
    /\ ups[p] = None
    /\ IF ~recruiters_me_check(current_user.role)
       THEN ProfileResp("recruiters_update_my_profile", 403, current_user, {})
       ELSE StartUpsert(p, UpsertRequest(
                "recruiters_update_my_profile", "recruiter_profiles",
                current_user._id, profile_data, None, None))

----------------------------------------------------------------------------
(* Submissions (modules/submissions) *)

SubmissionUpdate == [status : {None} \cup {Some(s) : s \in SubmissionStatus}]

(* SubmissionRepository.create: the inserted document *)
SubmissionRepository_create(id, jd_id, consultant_id, recruiter_id, resume_path) ==
    [_id |-> id, jd_id |-> jd_id, consultant_id |-> consultant_id,
     recruiter_id |-> recruiter_id, resume_path |-> resume_path,
     status |-> "SUBMITTED", recruiter_read |-> FALSE,
     created_at |-> now, updated_at |-> now]

(* Mutant: a submission that has reached JOINED, REJECTED or WITHDRAWN    *)
(* keeps its status                                                       *)
SubmissionRepository_update_status_Final(d, submission_id, status, recruiter_id) ==
    LET Set(s) == [s EXCEPT !.status =
                      IF @ \in {"JOINED", "REJECTED", "WITHDRAWN"} THEN @ ELSE status,
                            !.updated_at = now]
    IN [d EXCEPT !.submissions = UpdateOne(@, submission_id, Set)]

(* Mutant: the submission is handed to the recruiter who updates it *)
SubmissionRepository_update_status_Reassign(d, submission_id, status, recruiter_id) ==
    LET Set(s) == [s EXCEPT !.status = status, !.updated_at = now,
                            !.recruiter_id = recruiter_id]
    IN [d EXCEPT !.submissions = UpdateOne(@, submission_id, Set)]

(* SubmissionRepository.update_status: $set status and updated_at;        *)
(* recruiter_id is not used                                               *)
SubmissionRepository_update_status(d, submission_id, status, recruiter_id) ==
    LET Set(s) == [s EXCEPT !.status = status, !.updated_at = now]
    IN [d EXCEPT !.submissions = UpdateOne(@, submission_id, Set)]

(* Mutant: every job that is not CLOSED accepts applications *)
JobIsOpen_NotClosed(jd) == jd.status # "CLOSED"

(* create_submission: the guard on the job's status *)
JobIsOpen(jd) == ~(jd.status # "OPEN")

(* POST /submissions/, up to the profile step: role gate, job lookup (500 *)
(* for a malformed id, 404), status guard (400), then the caller's        *)
(* consultant profile is looked up and, if there is none, its upsert      *)
(* begins                                                                 *)
SubmitCheck(p, current_user, jd_id) ==
    /\ subm[p] = None
    /\ ups[p] = None
    /\ LET r == JobRepository_get_by_id(db, jd_id)
           Fail(code) ==
               /\ last' = Resp("create_submission", code, current_user, Some(jd_id))
               /\ UNCHANGED <<subm, ups>>
       IN IF ~require_role("CONSULTANT", current_user.role) THEN Fail(403)
          ELSE IF r.raised # "" THEN Fail(500)
          ELSE IF r.jd = None THEN Fail(404)
          ELSE LET jd == (CHOOSE j \in r.jd : TRUE).doc IN
               IF ~JobIsOpen(jd) THEN Fail(400)
               ELSE /\ ups' = IF ConsultantRepository_get_by_user_id(db, current_user._id) = None
                              THEN [ups EXCEPT ![p] = Some(UpsertRequest(
                                       "create_submission", "consultant_profiles",
                                       current_user._id,
                                       [NoProfileUpdate EXCEPT !.experience_years = Some(0)],
                                       None, None))]
                              ELSE ups
                    /\ subm' = [subm EXCEPT ![p] =
                                  Some([consultant_id |-> current_user._id,
                                        jd_id |-> jd_id,
                                        recruiter_id |-> jd.recruiter_id])]
                    /\ UNCHANGED last
    /\ UNCHANGED <<db, users_up, faults, uploads, nextId, now, tokens, reg>>

(* Mutant: the written file is removed when the insert fails *)
SubmitInsert_Cleanup(p) ==
    /\ subm[p] # None
    /\ ups[p] = None
    /\ LET rq == CHOOSE x \in subm[p] : TRUE
           file_path == [owner |-> rq.consultant_id, jd_id |-> rq.jd_id, rnd |-> nextId]
           doc == SubmissionRepository_create(nextId, rq.jd_id, rq.consultant_id,
                                              rq.recruiter_id, file_path)
       IN IF "submissions" \in faults
          THEN /\ UNCHANGED <<uploads, db>>
               /\ last' = [op |-> "create_submission", code |-> 500,
                           caller |-> rq.consultant_id, id |-> None]
          ELSE /\ uploads' = uploads \cup {file_path}
               /\ db' = [db EXCEPT !.submissions = @ \cup {doc}]
               /\ last' = [op |-> "create_submission", code |-> 200,
                           caller |-> rq.consultant_id, id |-> Some(nextId)]
    /\ nextId' = nextId + 1
    /\ subm' = [subm EXCEPT ![p] = None]
    /\ UNCHANGED <<users_up, faults, ups, now, tokens, reg>>

(* POST /submissions/, the rest: the resume is written under a random     *)
(* name, then the submission is inserted.  When the insert raises (the    *)
(* submissions collection is failing) the handler answers 500 and the     *)
(* file stays                                                             *)
SubmitInsert(p) ==
    /\ subm[p] # None
    /\ ups[p] = None
    /\ LET rq == CHOOSE x \in subm[p] : TRUE
           file_path == [owner |-> rq.consultant_id, jd_id |-> rq.jd_id, rnd |-> nextId]
           doc == SubmissionRepository_create(nextId, rq.jd_id, rq.consultant_id,
                                              rq.recruiter_id, file_path)
       IN /\ uploads' = uploads \cup {file_path}
          /\ IF "submissions" \in faults
             THEN /\ UNCHANGED db
                  /\ last' = [op |-> "create_submission", code |-> 500,
                              caller |-> rq.consultant_id, id |-> None]
             ELSE /\ db' = [db EXCEPT !.submissions = @ \cup {doc}]
                  /\ last' = [op |-> "create_submission", code |-> 200,
                              caller |-> rq.consultant_id, id |-> Some(nextId)]
    /\ nextId' = nextId + 1
    /\ subm' = [subm EXCEPT ![p] = None]
    /\ UNCHANGED <<users_up, faults, ups, now, tokens, reg>>

(* PUT /submissions/{submission_id}/status.  prev is the status the       *)
(* submission had before the request (not part of the response).          *)
update_submission_status(current_user, submission_id, status_update) ==
    /\ LET Fail(code) ==
               /\ last' = [op |-> "update_status", code |-> code,
                           caller |-> current_user._id, id |-> Some(submission_id),
                           prev |-> None]
               /\ UNCHANGED db
       IN IF ~require_recruiter_or_admin(current_user.role) THEN Fail(403)
          ELSE IF status_update.status = None THEN Fail(400)
          ELSE IF submission_id = MalformedId THEN Fail(500)
          ELSE LET submission == FindById(db.submissions, submission_id) IN
               IF submission = None THEN Fail(404)
               ELSE /\ db' = SubmissionRepository_update_status(
                                 db, submission_id,
                                 CHOOSE x \in status_update.status : TRUE,
                                 current_user._id)
                    /\ last' = [op |-> "update_status", code |-> 200,
                                caller |-> current_user._id, id |-> Some(submission_id),
                                prev |-> {s.status : s \in submission}]
    /\ UNCHANGED <<users_up, faults, ups, uploads, nextId, now, tokens, reg, subm>>

----------------------------------------------------------------------------
(* Submission listings.  A row is the stored document with its joined    *)
(* fields; a joined field is an Optional, None when the code leaves the   *)
(* key unset.                                                             *)

(* Mutant: the consultant's name and email are not merged *)
SubmissionRepository_get_all_row_NoMerge(d, doc) ==
    LET jd == Lookup(d, "job_descriptions", doc.jd_id) IN
    [doc |-> doc,
     consultant_name |-> Some("Unknown"),
     consultant_email |-> Some(""),
     jd_title |-> IF jd.outcome = "found"
                  THEN {j.title : j \in jd.doc} ELSE Some("Unknown")]

(* SubmissionRepository.get_all, the body of the cursor loop: consultant  *)
(* lookup in db.consultants, then job lookup                              *)
SubmissionRepository_get_all_row(d, doc) ==
    LET consultant_user == Lookup(d, "consultants", doc.consultant_id)
        jd == Lookup(d, "job_descriptions", doc.jd_id)
    IN [doc |-> doc,
        consultant_name |-> IF consultant_user.outcome = "found"
                            THEN {u.name : u \in consultant_user.doc}
                            ELSE Some("Unknown"),
        consultant_email |-> IF consultant_user.outcome = "found"
                             THEN {u.email : u \in consultant_user.doc}
                             ELSE Some(""),
        jd_title |-> IF jd.outcome = "found"
                     THEN {j.title : j \in jd.doc} ELSE Some("Unknown")]

(* Mutant: a submission whose consultant or job does not resolve is left *)
(* out                                                                    *)
SubmissionRepository_get_all_InnerJoin(d, recruiter_id) ==
    {SubmissionRepository_get_all_row(d, doc) :
        doc \in {s \in d.submissions :
                    /\ recruiter_id = None \/ Some(s.recruiter_id) = recruiter_id
                    /\ Lookup(d, "consultants", s.consultant_id).outcome = "found"
                    /\ Lookup(d, "job_descriptions", s.jd_id).outcome = "found"}}

(* SubmissionRepository.get_all(recruiter_id): "if recruiter_id:" adds    *)
(* the filter                                                             *)
SubmissionRepository_get_all(d, recruiter_id) ==
    {SubmissionRepository_get_all_row(d, doc) :
        doc \in {s \in d.submissions :
                    recruiter_id = None \/ Some(s.recruiter_id) = recruiter_id}}

(* SubmissionRepository.get_by_consultant, the body of the cursor loop:   *)
(* only the job is looked up; jd_title is set when the job is found or    *)
(* the lookup raises                                                      *)
SubmissionRepository_get_by_consultant_row(d, doc) ==
    LET jd == Lookup(d, "job_descriptions", doc.jd_id) IN
    [doc |-> doc,
     consultant_name |-> None,
     consultant_email |-> None,
     jd_title |-> CASE jd.outcome = "found" -> {j.title : j \in jd.doc}
                    [] jd.outcome = "missing" -> None
                    [] OTHER -> Some("Unknown Job")]

SubmissionRepository_get_by_consultant(d, consultant_id) ==
    {SubmissionRepository_get_by_consultant_row(d, doc) :
        doc \in {s \in d.submissions : s.consultant_id = consultant_id}}

(* GET /submissions/me *)
get_my_submissions(current_user) ==
    /\ last' = IF ~require_role("CONSULTANT", current_user.role)
               THEN Rows("get_my_submissions", 403, current_user, {})
               ELSE Rows("get_my_submissions", 200, current_user,
                         SubmissionRepository_get_by_consultant(db, current_user._id))
    /\ UNCHANGED <<db, users_up, faults, ups, uploads, nextId, now, tokens, reg, subm>>

(* GET /submissions/: a recruiter gets the submissions to its own jobs,   *)
(* an admin gets all                                                      *)
get_all_submissions(current_user) ==
    /\ last' = IF ~require_recruiter_or_admin(current_user.role)
               THEN Rows("get_all_submissions", 403, current_user, {})
               ELSE Rows("get_all_submissions", 200, current_user,
                         SubmissionRepository_get_all(
                             db, IF current_user.role = "RECRUITER"
                                 THEN Some(current_user._id) ELSE None))
    /\ UNCHANGED <<db, users_up, faults, ups, uploads, nextId, now, tokens, reg, subm>>

----------------------------------------------------------------------------
(* The job and submission handlers, called by the accounts of a seeded    *)
(* store: two recruiters, a consultant and an admin, as four serialized   *)
(* registrations leave them                                               *)

SeedUsers ==
    <<[email |-> "r1@x.io", name |-> "Ann", role |-> "RECRUITER",
       is_active |-> TRUE, password |-> PwGood],
      [email |-> "r2@x.io", name |-> "Ann", role |-> "RECRUITER",
       is_active |-> TRUE, password |-> PwGood],
      [email |-> "c@x.io", name |-> "Ann", role |-> "CONSULTANT",
       is_active |-> TRUE, password |-> PwGood],
      [email |-> "adm@x.io", name |-> "Ann", role |-> "ADMIN",
       is_active |-> TRUE, password |-> PwGood]>>

SeedAccounts(role) ==
    {AccountDoc(i, SeedUsers[i]) : i \in {k \in DOMAIN SeedUsers : SeedUsers[k].role = role}}

SeededDb ==
    [EmptyDb EXCEPT !.recruiters = SeedAccounts("RECRUITER"),
                    !.consultants = SeedAccounts("CONSULTANT"),
                    !.admins = SeedAccounts("ADMIN"),
                    !.users = SeedAccounts("RECRUITER") \cup SeedAccounts("CONSULTANT")
                                \cup SeedAccounts("ADMIN")]

InitBiz ==
    /\ now = 0
    /\ db = SeededDb
    /\ users_up = TRUE
    /\ faults = {}
    /\ ups = Idle
    /\ uploads = {}
    /\ nextId = Len(SeedUsers) + 1
    /\ tokens = {}
    /\ reg = Idle
    /\ subm = Idle
    /\ last = [op |-> "none"]

(* Ids a request can name: a malformed one, the id of every stored        *)
(* document, and one that no document has                                 *)
RequestIds(coll) == {MalformedId, nextId} \cup {d._id : d \in coll}

NextJobs ==
    \/ \E current_user \in AllAccounts(db), jd_data \in JobDescriptionCreate :
          Cardinality(db.job_descriptions) < MaxJobs /\ create_job(current_user, jd_data)
    \/ \E current_user \in AllAccounts(db), jd_id \in RequestIds(db.job_descriptions),
          jd_data \in JobDescriptionUpdate : update_job(current_user, jd_id, jd_data)
    \/ \E current_user \in AllAccounts(db), status \in StatusParams :
          get_jobs(current_user, status)

SpecJobs == InitBiz /\ [][NextJobs]_vars

NextSubs ==
    \/ \E current_user \in AllAccounts(db), jd_data \in JobDescriptionCreate :
          /\ Quiet
          /\ Cardinality(db.job_descriptions) < MaxSubJobs
          /\ create_job(current_user, jd_data)
    \/ \E current_user \in AllAccounts(db), jd_id \in RequestIds(db.job_descriptions),
          jd_data \in JobDescriptionUpdate :
          Quiet /\ update_job(current_user, jd_id, jd_data)
    \/ \E p \in Procs, current_user \in AllAccounts(db),
          jd_id \in RequestIds(db.job_descriptions) :
          /\ Quiet
          /\ Cardinality(db.submissions) < MaxSubs
          /\ SubmitCheck(p, current_user, jd_id)
    \/ \E p \in Procs : UpsertApply(p)
    \/ \E p \in Procs, retried \in BOOLEAN : UpsertInsert(p, retried)
    \/ \E p \in Procs : SubmitInsert(p)
    \/ \E current_user \in AllAccounts(db), submission_id \in RequestIds(db.submissions),
          status_update \in SubmissionUpdate :
          Quiet /\ update_submission_status(current_user, submission_id, status_update)

SpecSubs == InitBiz /\ [][NextSubs]_vars

(* The submission flow: a job is posted, a consultant applies, the        *)
(* recruiter lists and updates, the consultant lists                      *)
NextFlow ==
    \/ \E current_user \in AllAccounts(db), jd_data \in JobDescriptionCreate :
          /\ Quiet
          /\ Cardinality(db.job_descriptions) < MaxSubJobs
          /\ create_job(current_user, jd_data)
    \/ \E p \in Procs, current_user \in AllAccounts(db),
          jd_id \in RequestIds(db.job_descriptions) :
          /\ Quiet
          /\ Cardinality(db.submissions) < MaxSubs
          /\ SubmitCheck(p, current_user, jd_id)
    \/ \E p \in Procs : UpsertApply(p)
    \/ \E p \in Procs, retried \in BOOLEAN : UpsertInsert(p, retried)
    \/ \E p \in Procs : SubmitInsert(p)
    \/ \E current_user \in AllAccounts(db), submission_id \in RequestIds(db.submissions),
          status_update \in SubmissionUpdate :
          Quiet /\ update_submission_status(current_user, submission_id, status_update)
    \/ \E current_user \in AllAccounts(db) : Quiet /\ get_all_submissions(current_user)
    \/ \E current_user \in AllAccounts(db) : Quiet /\ get_my_submissions(current_user)

SpecFlow == InitBiz /\ [][NextFlow]_vars

----------------------------------------------------------------------------
(* The list/get queries over a store whose references dangle or whose     *)
(* lookups fail.  The store is the seeded one after recruiter r1 posted   *)
(* an OPEN job and saved its profile and the consultant applied to the    *)
(* job (which created the consultant's profile).                          *)

JoinCollections == {"recruiters", "consultants", "job_descriptions"}

JoinDb ==
    LET r1 == 1
        c == 3
        jd == JobRepository_create(5, [title |-> "Dev", status |-> "OPEN"], r1)
        d1 == [SeededDb EXCEPT !.job_descriptions = {jd}]
        d2 == ConsultantRepository_create_or_update(
                  d1, 6, c, [NoProfileUpdate EXCEPT !.experience_years = Some(0)])
        sub == SubmissionRepository_create(
                   7, 5, c, r1, [owner |-> c, jd_id |-> 5, rnd |-> 7])
        d3 == [d2 EXCEPT !.submissions = {sub}]
    IN RecruiterRepository_update_profile(
           d3, 8, r1, [NoRecruiterUpdate EXCEPT !.company_name = Some("Acme")])

InitJoin ==
    /\ now = 0
    /\ db = JoinDb
    /\ users_up = TRUE
    /\ faults = {}
    /\ ups = Idle
    /\ uploads = {[owner |-> 3, jd_id |-> 5, rnd |-> 7]}
    /\ nextId = 9
    /\ tokens = {}
    /\ reg = Idle
    /\ subm = Idle
    /\ last = [op |-> "none"]

(* The secondary lookups on the collections of f start to fail, the       *)
(* others recover                                                         *)
SetFaults(f) ==
    /\ f # faults
    /\ faults' = f
    /\ UNCHANGED <<db, users_up, ups, uploads, nextId, now, tokens, reg, subm, last>>

AccountIds(d) == {a._id : a \in AllAccounts(d)}

NextJoin ==
    \/ \E f \in SUBSET JoinCollections : SetFaults(f)
    \/ \E c \in AccountCollections, id \in AccountIds(db) : Delete(c, id)
    \/ \E current_user \in AllAccounts(db), status \in StatusParams :
          get_jobs(current_user, status)
    \/ \E current_user \in AllAccounts(db), jd_id \in RequestIds(db.job_descriptions) :
          get_job(current_user, jd_id)
    \/ \E current_user \in AllAccounts(db) : get_all_submissions(current_user)
    \/ \E current_user \in AllAccounts(db) : get_my_submissions(current_user)
    \/ \E current_user \in AllAccounts(db) : get_all_consultants(current_user)
    \/ \E current_user \in AllAccounts(db),
          user_id \in {MalformedId} \cup {pr.consultant_id : pr \in db.consultant_profiles} :
          get_consultant_profile(current_user, user_id)
    \/ \E p \in Procs, current_user \in AllAccounts(db) :
          consultants_get_my_profile(p, current_user)
    \/ \E current_user \in AllAccounts(db) : recruiters_get_my_profile(current_user)

SpecJoin == InitJoin /\ [][NextJoin]_vars

----------------------------------------------------------------------------
(* The account repositories and the users view, one call at a time        *)

MirrorIds == 0..MaxMirrorIds

(* The registrations and updates issued here: an active recruiter and an  *)
(* active consultant; no field, a new name, or a promotion to ADMIN       *)
MirrorCreates ==
    {u \in UserCreate :
        /\ u.is_active
        /\ \/ u.role = "RECRUITER" /\ u.email = "a@x.io"
           \/ u.role = "CONSULTANT" /\ u.email = "b@x.io"}
MirrorUpdates == {u \in UserUpdate : u.is_active = None
                                       /\ u.role \in {None, Some("ADMIN")}}

NextMirror ==
    \/ \E p \in Procs, user_data \in MirrorCreates :
          Quiet /\ nextId <= MaxMirrorIds /\ CreateCheck(p, user_data)
    \/ \E p \in Procs : CreateInsert(p)
    \/ \E c \in AccountCollections, id \in MirrorIds, user_data \in MirrorUpdates :
          Quiet /\ Update(c, id, user_data)
    \/ \E c \in AccountCollections, id \in MirrorIds : Quiet /\ Delete(c, id)
    \/ \E c \in AccountCollections, id \in MirrorIds, active \in BOOLEAN :
          Quiet /\ SetActive(c, id, active)
    \/ Quiet /\ Tick

SpecMirror == Init /\ [][NextMirror]_vars

(* The users collection starts or stops refusing writes *)
SetUsersUp(up) ==
    /\ up # users_up
    /\ users_up' = up
    /\ UNCHANGED <<db, faults, ups, uploads, nextId, now, tokens, reg, subm, last>>

(* The same calls while the users collection comes and goes *)
OutageIds == 0..MaxOutageIds

NextOutage ==
    \/ \E up \in BOOLEAN : SetUsersUp(up)
    \/ \E p \in Procs, user_data \in MirrorCreates :
          Quiet /\ nextId <= MaxOutageIds /\ CreateCheck(p, user_data)
    \/ \E p \in Procs : CreateInsert(p)
    \/ \E c \in AccountCollections, id \in OutageIds, user_data \in MirrorUpdates :
          Quiet /\ Update(c, id, user_data)
    \/ \E c \in AccountCollections, id \in OutageIds : Quiet /\ Delete(c, id)
    \/ \E c \in AccountCollections, id \in OutageIds, active \in BOOLEAN :
          Quiet /\ SetActive(c, id, active)

SpecOutage == Init /\ [][NextOutage]_vars

----------------------------------------------------------------------------
(* The profile endpoints, one request at a time, while the clock runs.    *)
(* The callers are recruiter r1, the consultant and the admin.            *)

ProfileCallers(d) == {a \in AllAccounts(d) : a.email # "r2@x.io"}

NextProfiles ==
    \/ \E p \in Procs, current_user \in ProfileCallers(db) :
          Quiet /\ consultants_get_my_profile(p, current_user)
    \/ \E p \in Procs, current_user \in ProfileCallers(db),
          profile_data \in ConsultantProfileUpdate :
          Quiet /\ consultants_update_my_profile(p, current_user, profile_data)
    \/ \E current_user \in ProfileCallers(db) :
          Quiet /\ recruiters_get_my_profile(current_user)
    \/ \E p \in Procs, current_user \in ProfileCallers(db),
          profile_data \in RecruiterProfileUpdate :
          Quiet /\ recruiters_update_my_profile(p, current_user, profile_data)
    \/ \E p \in Procs : UpsertApply(p)
    \/ \E p \in Procs, retried \in BOOLEAN : UpsertInsert(p, retried)
    \/ Quiet /\ Tick

SpecProfiles == InitBiz /\ [][NextProfiles]_vars

(* Requests of one consultant and one recruiter overlapping on the        *)
(* workers, none waiting for another: profile reads and updates, resume   *)
(* uploads and applications to the one OPEN job of the store              *)

RaceDb ==
    [SeededDb EXCEPT !.job_descriptions =
        {JobRepository_create(5, [title |-> "Dev", status |-> "OPEN"], 1)}]

InitRace ==
    /\ now = 0
    /\ db = RaceDb
    /\ users_up = TRUE
    /\ faults = {}
    /\ ups = Idle
    /\ uploads = {}
    /\ nextId = 6
    /\ tokens = {}
    /\ reg = Idle
    /\ subm = Idle
    /\ last = [op |-> "none"]

RaceCallers(d) == {a \in AllAccounts(d) : a.email \in {"r1@x.io", "c@x.io"}}

NextRace ==
    \/ \E p \in Procs, current_user \in RaceCallers(db) :
          consultants_get_my_profile(p, current_user)
    \/ \E p \in Procs, current_user \in RaceCallers(db) :
          consultants_update_my_profile(
              p, current_user, [NoProfileUpdate EXCEPT !.experience_years = Some(5)])
    \/ \E p \in Procs, current_user \in RaceCallers(db) : upload_resume(p, current_user)
    \/ \E p \in Procs, current_user \in RaceCallers(db) :
          /\ nextId < MaxRaceId
          /\ SubmitCheck(p, current_user, 5)
    \/ \E p \in Procs : SubmitInsert(p)
    \/ \E current_user \in RaceCallers(db) : recruiters_get_my_profile(current_user)
    \/ \E p \in Procs, current_user \in RaceCallers(db) :
          recruiters_update_my_profile(
              p, current_user, [NoRecruiterUpdate EXCEPT !.company_name = Some("Acme")])
    \/ \E p \in Procs : UpsertApply(p)
    \/ \E p \in Procs, retried \in BOOLEAN : nextId <= MaxRaceId /\ UpsertInsert(p, retried)

SpecRace == InitRace /\ [][NextRace]_vars

(* Applications to the one job of the store overlapping with updates of   *)
(* that job by its recruiter                                              *)
NextGuard ==
    \/ \E p \in Procs, current_user \in RaceCallers(db),
          jd_id \in RequestIds(db.job_descriptions) :
          /\ Cardinality(db.submissions) < MaxSubs
          /\ SubmitCheck(p, current_user, jd_id)
    \/ \E p \in Procs : UpsertApply(p)
    \/ \E p \in Procs, retried \in BOOLEAN : UpsertInsert(p, retried)
    \/ \E p \in Procs : Cardinality(db.submissions) < MaxSubs /\ SubmitInsert(p)
    \/ \E current_user \in RaceCallers(db), jd_id \in RequestIds(db.job_descriptions),
          jd_data \in JobDescriptionUpdate : update_job(current_user, jd_id, jd_data)

SpecGuard == InitRace /\ [][NextGuard]_vars

(* Applications to the one job of the store while inserts into the        *)
(* submissions collection fail and recover                                *)
NextOrphan ==
    \/ \E f \in SUBSET {"submissions"} : SetFaults(f)
    \/ \E p \in Procs, current_user \in RaceCallers(db),
          jd_id \in RequestIds(db.job_descriptions) :
          /\ nextId < MaxRaceId
          /\ Cardinality(db.submissions) < MaxSubs
          /\ SubmitCheck(p, current_user, jd_id)
    \/ \E p \in Procs : UpsertApply(p)
    \/ \E p \in Procs, retried \in BOOLEAN : UpsertInsert(p, retried)
    \/ \E p \in Procs : SubmitInsert(p)

SpecOrphan == InitRace /\ [][NextOrphan]_vars

----------------------------------------------------------------------------
(* get_password_hash and verify_password applied to passwords around the  *)
(* 72-byte limit.  A password is the sequence of its UTF-8 bytes: 97 is   *)
(* "a", 98 is "b", 195 169 is e-acute, 226 130 172 is the euro sign.      *)

Ascii(n) == [i \in 1..n |-> 97]

LongPasswords ==
    {Ascii(PASSWORD_MAX_BYTES - 2),
     Ascii(PASSWORD_MAX_BYTES - 1),
     Ascii(PASSWORD_MAX_BYTES),
     Ascii(PASSWORD_MAX_BYTES - 2) \o <<195, 169>>,
     Ascii(PASSWORD_MAX_BYTES) \o <<97>>,
     Ascii(PASSWORD_MAX_BYTES) \o <<98>>,
     Ascii(PASSWORD_MAX_BYTES - 1) \o <<195, 169>>,
     Ascii(PASSWORD_MAX_BYTES - 2) \o <<195, 169, 195, 169>>,
     Ascii(PASSWORD_MAX_BYTES - 2) \o <<226, 130, 172>>}

PasswordInputs == Passwords \cup LongPasswords

InitPw ==
    /\ now = 0
    /\ db = EmptyDb
    /\ users_up = TRUE
    /\ faults = {}
    /\ ups = Idle
    /\ uploads = {}
    /\ nextId = 1
    /\ tokens = {}
    /\ reg = Idle
    /\ subm = Idle
    /\ \E password \in PasswordInputs, plain_password \in PasswordInputs :
          last = [op |-> "none", password |-> password,
                  plain_password |-> plain_password]

(* hashed = get_password_hash(password) *)
HashPassword ==
    /\ last.op = "none"
    /\ last' = [op |-> "get_password_hash", password |-> last.password,
                plain_password |-> last.plain_password,
                hashed |-> get_password_hash(last.password)]
    /\ UNCHANGED <<db, users_up, faults, ups, uploads, nextId, now, tokens, reg, subm>>

(* is_valid = verify_password(plain_password, hashed) *)
VerifyPassword ==
    /\ last.op = "get_password_hash"
    /\ last' = [op |-> "verify_password", password |-> last.password,
                plain_password |-> last.plain_password,
                is_valid |-> verify_password(last.plain_password, last.hashed)]
    /\ UNCHANGED <<db, users_up, faults, ups, uploads, nextId, now, tokens, reg, subm>>

NextPw == HashPassword \/ VerifyPassword

SpecPw == InitPw /\ [][NextPw]_vars

----------------------------------------------------------------------------
(* Properties *)

UniqueEmailAcrossCollections ==
    \A a, b \in AllAccounts(db) : a.email = b.email => a = b

(* C1: under serialized execution every email is stored at most once      *)
(* across the recruiter, consultant and admin collections, and a create   *)
(* whose email already exists in any of the three fails with "Email       *)
(* already exists" and inserts nothing (role collections and users view   *)
(* unchanged, nothing left in flight).                                    *)
C1_SerialCreateUnique ==
    /\ []UniqueEmailAcrossCollections
    /\ [][\A p \in Procs, user_data \in UserCreate :
            (CreateCheck(p, user_data)
               /\ \E a \in AllAccounts(db) : a.email = user_data.email)
            => /\ last' = [op |-> "create", code |-> 400,
                           detail |-> "Email already exists"]
               /\ db' = db
               /\ reg' = reg]_vars

C1_Witness ==
    /\ last = [op |-> "create", code |-> 400, detail |-> "Email already exists"]
    /\ Cardinality(AllAccounts(db)) = 1
    /\ db.users = AllAccounts(db)
    /\ Quiet

(* C2: the insert step of create is refused only by the unique index of   *)
(* its own role collection: a registration that passed the existence      *)
(* check inserts its account whenever its own collection does not hold    *)
(* the email, even if another role collection has received that email in  *)
(* the meantime.  Two concurrent registrations with one email and         *)
(* different roles can therefore both succeed.                            *)
C2_InsertIgnoresOtherCollections ==
    [][\A p \in Procs :
          (CreateInsert(p) /\ reg[p] # None)
          => LET user_data == CHOOSE u \in reg[p] : TRUE
                 c == CollectionOf(user_data.role)
             IN (\A a \in db[c] : a.email # user_data.email)
                => /\ last'.code = 200
                   /\ \E a \in db'[c] : a.email = user_data.email /\ a._id = nextId]_vars

C2_Witness ==
    /\ Quiet
    /\ \E a \in db.recruiters, b \in db.consultants : a.email = b.email
    /\ last = [op |-> "create", code |-> 200, detail |-> "User"]

(* C3: POST /auth/login answers 200 and issues a token exactly when an    *)
(* account with the given email is found, the password verifies against   *)
(* that account's stored hash and the account is active; the token's      *)
(* subject is that email.  Every other login answers 401 and issues no    *)
(* token.                                                                 *)
LoginOk(user_credentials) ==
    \E a \in get_user_by_email(db, user_credentials.email) :
        /\ a.email = user_credentials.email
        /\ verify_password(user_credentials.password, a.hashed_password)
        /\ a.is_active

C3_LoginIssuesToken ==
    [][\A user_credentials \in UserLogin :
          (last'.op = "login" /\ Login(user_credentials))
          => IF LoginOk(user_credentials)
             THEN /\ last'.code = 200
                  /\ \E t \in last'.token :
                       /\ t.sub = Some(user_credentials.email)
                       /\ t.exp = now + ACCESS_TOKEN_EXPIRE_MINUTES
                       /\ tokens' = tokens \cup {t}
             ELSE /\ last'.code = 401
                  /\ last'.token = None
                  /\ tokens' = tokens]_vars

C3_Witness ==
    /\ last.op = "login" /\ last.code = 200
    /\ \E t \in last.token, a \in AllAccounts(db) :
          t.sub = Some(a.email) /\ a.is_active /\ t \in tokens
    /\ \E a \in AllAccounts(db) : ~a.is_active

(* C4 (as stated): verification fails closed, and a token issued to an    *)
(* account that has since been hard-deleted is rejected by every later    *)
(* request.                                                               *)
TokenAccepted(cred) ==
    /\ cred.sig_ok
    /\ cred.token.exp >= now
    /\ \E a \in AllAccounts(db) : Some(a.email) = cred.token.sub

C4_Original ==
    [][\A cred \in Credentials :
          (last'.op = "me" /\ GetMe(cred))
          => /\ last'.code = 200 <=> TokenAccepted(cred)
             /\ last'.code = 200
                  => \E a \in AllAccounts(db) : a._id = cred.token.uid]_vars

(* C4 (amended): a request is authenticated (200) exactly when its token  *)
(* has a valid signature, is unexpired, carries a subject and an account  *)
(* with that email is in the store at request time; otherwise it gets     *)
(* 401.  The caller is the account stored under that email now, with its  *)
(* current role.  So a token of a hard-deleted account is rejected as     *)
(* long as no account has its email.                                      *)
C4_FailClosedReResolve ==
    [][\A cred \in Credentials :
          (last'.op = "me" /\ GetMe(cred))
          => /\ last'.code \in {200, 401}
             /\ last'.code = 200 <=> TokenAccepted(cred)
             /\ last'.code = 200
                  => \E a \in AllAccounts(db) :
                        /\ Some(a.email) = cred.token.sub
                        /\ last'.id = Some(a._id)
                        /\ last'.role = Some(a.role)
             /\ (\A a \in AllAccounts(db) : Some(a.email) # cred.token.sub)
                  => last'.code = 401]_vars

(* A token outlives its account: its email was registered again *)
C4_Witness ==
    /\ last.op = "me" /\ last.code = 200
    /\ \E t \in tokens :
          /\ \A a \in AllAccounts(db) : a._id # t.uid
          /\ \E a \in AllAccounts(db) : Some(a.email) = t.sub /\ last.id = Some(a._id)

(* The allow-list each gate names *)
AllowList(gate) ==
    CASE gate = "require_role(RECRUITER)" -> {"RECRUITER"}
      [] gate = "require_role(CONSULTANT)" -> {"CONSULTANT"}
      [] gate = "require_role(ADMIN)" -> {"ADMIN"}
      [] gate = "require_admin" -> {"ADMIN"}
      [] gate = "require_recruiter_or_admin" -> {"RECRUITER", "ADMIN"}
      [] gate = "require_consultant_or_admin" -> {"CONSULTANT", "ADMIN"}
      [] gate = "consultants/me" -> {"CONSULTANT"}
      [] gate = "recruiters/me" -> {"RECRUITER"}

(* C5 (as stated): every gate, the inline checks of the profile endpoints *)
(* included, admits an authenticated caller iff its role is in the        *)
(* allow-list or is ADMIN, and answers 403 otherwise.                     *)
C5_Original ==
    (last.op = "gate" /\ last.code # 401)
    => \E role \in last.role :
          /\ last.code \in {200, 403}
          /\ last.code = 200 <=> (role \in AllowList(last.gate) \/ role = "ADMIN")

(* C5 (amended): the gate dependencies require_role(R), require_admin,    *)
(* require_recruiter_or_admin and require_consultant_or_admin admit an    *)
(* authenticated caller iff its role is in the allow-list or is ADMIN;    *)
(* the inline checks of /consultants/me and /recruiters/me admit only the *)
(* exact role and reject ADMIN.  Every rejected caller gets 403.          *)
C5_GatesAdmitAdminExceptInline ==
    (last.op = "gate" /\ last.code # 401)
    => \E role \in last.role :
          /\ last.code \in {200, 403}
          /\ last.gate \in DecoratorGates
               => (last.code = 200 <=> (role \in AllowList(last.gate) \/ role = "ADMIN"))
          /\ last.gate \in InlineGates
               => (last.code = 200 <=> role \in AllowList(last.gate))

C5_Witness ==
    /\ last.op = "gate"
    /\ last.gate \in InlineGates
    /\ last.role = Some("ADMIN")
    /\ last.code = 403


(* C6: a submission's status is changed only by the recruiter who owns it *)
(* or by an admin: PUT /submissions/{id}/status by a caller who is        *)
(* neither an admin nor the submission's recruiter_id leaves every such   *)
(* submission unchanged.                                                  *)
C6_StatusChangedOnlyByOwnerOrAdmin ==
    [][\A current_user \in AllAccounts(db),
          submission_id \in RequestIds(db.submissions),
          status_update \in SubmissionUpdate :
          (/\ last'.op = "update_status"
           /\ last'.caller = current_user._id
           /\ last'.id = Some(submission_id)
           /\ update_submission_status(current_user, submission_id, status_update))
          => \A s \in db.submissions :
                (current_user.role # "ADMIN" /\ current_user._id # s.recruiter_id)
                => s \in db'.submissions]_vars

(* C7: PUT /jobs/{jd_id} on an existing job by a caller whose id differs  *)
(* from the job's stored recruiter_id answers 403 and leaves the database *)
(* unchanged, for ADMIN callers too; a job document changes under         *)
(* update_job only when the caller's id is its recruiter_id.              *)
C7_JobUpdateOwnerOnly ==
    [][\A current_user \in AllAccounts(db),
          jd_id \in RequestIds(db.job_descriptions),
          jd_data \in JobDescriptionUpdate :
          (/\ last'.op = "update_job"
           /\ last'.caller = current_user._id
           /\ last'.id = Some(jd_id)
           /\ update_job(current_user, jd_id, jd_data))
          => /\ (\E j \in db.job_descriptions :
                    j._id = jd_id /\ j.recruiter_id # current_user._id)
                => (last'.code = 403 /\ db' = db)
             /\ \A j \in db.job_descriptions :
                    j \notin db'.job_descriptions
                    => (j._id = jd_id /\ j.recruiter_id = current_user._id)]_vars

(* An admin was refused the update of a recruiter's job *)
C7_Witness ==
    /\ last.op = "update_job" /\ last.code = 403
    /\ \E a \in db.admins, j \in db.job_descriptions :
          /\ last.caller = a._id
          /\ last.id = Some(j._id)
          /\ j.recruiter_id # a._id

C9_ConsultantsSeeOpenJobsOnly ==
    [][\A current_user \in AllAccounts(db), status \in StatusParams :
          (/\ current_user.role = "CONSULTANT"
           /\ last'.op = "get_jobs"
           /\ last'.caller = current_user._id
           /\ get_jobs(current_user, status))
          => /\ \A row \in last'.jobs :
                   row.doc \in db.job_descriptions /\ row.doc.status = "OPEN"
             /\ \A j \in db.job_descriptions :
                   j.status = "OPEN" => \E row \in last'.jobs : row.doc = j]_vars

(* A consultant asked for the CLOSED jobs of a store that has one *)
C9_Witness ==
    /\ last.op = "get_jobs"
    /\ last.status = Some("CLOSED")
    /\ \E c \in db.consultants : last.caller = c._id
    /\ \E j \in db.job_descriptions : j.status = "CLOSED"
    /\ \E j \in db.job_descriptions, row \in last.jobs :
          j.status = "OPEN" /\ row.doc = j
    /\ \A row \in last.jobs : row.doc.status = "OPEN"

(* C10: for every stored submission, whatever its status, and every one   *)
(* of the seven statuses, update_status leaves the stored status equal to *)
(* the requested one and nothing else changed; every accepted             *)
(* PUT /submissions/{id}/status does so.                                  *)
C10_StatusTransitionsUnrestricted ==
    /\ [](\A s \in db.submissions, status \in SubmissionStatus,
             a \in db.recruiters \cup db.admins :
             SubmissionRepository_update_status(db, s._id, status, a._id)
               = [db EXCEPT !.submissions =
                     (@ \ {s}) \cup {[s EXCEPT !.status = status]}])
    /\ [][\A current_user \in AllAccounts(db),
             submission_id \in RequestIds(db.submissions),
             status_update \in SubmissionUpdate :
             (/\ last'.op = "update_status"
              /\ last'.caller = current_user._id
              /\ last'.id = Some(submission_id)
              /\ update_submission_status(current_user, submission_id, status_update))
             => /\ (/\ require_recruiter_or_admin(current_user.role)
                    /\ status_update.status # None
                    /\ \E s \in db.submissions : s._id = submission_id)
                   => last'.code = 200
                /\ last'.code = 200
                   => \E s \in db'.submissions :
                         /\ s._id = submission_id
                         /\ Some(s.status) = status_update.status]_vars

(* A submission that had reached JOINED was set back to SUBMITTED *)
C10_Witness ==
    /\ last.op = "update_status" /\ last.code = 200
    /\ last.prev = Some("JOINED")
    /\ \E s \in db.submissions : last.id = Some(s._id) /\ s.status = "SUBMITTED"

(* C11: the submission flow.  Every submission is to a job owned by the   *)
(* recruiter it names.  GET /submissions/ by recruiter R answers 200 with *)
(* a row for every stored submission to R's jobs, carrying the name and   *)
(* email of the submitting consultant's account and the title of the job. *)
(* An accepted status update to INTERVIEW stores INTERVIEW, the stored    *)
(* status then changes only by another accepted status update of that     *)
(* submission, and GET /submissions/me by consultant A answers 200 with   *)
(* exactly A's stored submissions, each with its stored status.           *)
C11_SubmissionFlow ==
    /\ [](\A s \in db.submissions : \E j \in db.job_descriptions :
             j._id = s.jd_id /\ j.recruiter_id = s.recruiter_id)
    /\ [][\A R \in db.recruiters :
             (/\ last'.op = "get_all_submissions"
              /\ last'.caller = R._id
              /\ get_all_submissions(R))
             => /\ last'.code = 200
                /\ \A s \in db.submissions :
                      s.recruiter_id = R._id
                      => \E row \in last'.rows :
                            /\ row.doc = s
                            /\ \A A \in db.consultants :
                                  A._id = s.consultant_id
                                  => /\ row.consultant_name = Some(A.name)
                                     /\ row.consultant_email = Some(A.email)
                            /\ \A j \in db.job_descriptions :
                                  j._id = s.jd_id => row.jd_title = Some(j.title)]_vars
    /\ [][\A R \in db.recruiters, s \in db.submissions :
             (/\ last'.op = "update_status"
              /\ last'.caller = R._id
              /\ last'.id = Some(s._id)
              /\ update_submission_status(R, s._id, [status |-> Some("INTERVIEW")]))
             => /\ last'.code = 200
                /\ [s EXCEPT !.status = "INTERVIEW"] \in db'.submissions]_vars
    /\ [][\A s \in db.submissions :
             (s.status = "INTERVIEW" /\ s \notin db'.submissions)
             => /\ last'.op = "update_status"
                /\ last'.code = 200
                /\ last'.id = Some(s._id)]_vars
    /\ [][\A A \in db.consultants :
             (/\ last'.op = "get_my_submissions"
              /\ last'.caller = A._id
              /\ get_my_submissions(A))
             => /\ last'.code = 200
                /\ {row.doc : row \in last'.rows}
                     = {s \in db.submissions : s.consultant_id = A._id}]_vars

(* The consultant lists its submissions after the recruiter of the job    *)
(* moved one to INTERVIEW                                                 *)
C11_Witness ==
    /\ last.op = "get_my_submissions" /\ last.code = 200
    /\ \E A \in db.consultants, row \in last.rows, j \in db.job_descriptions,
          R \in db.recruiters :
          /\ last.caller = A._id
          /\ row.doc \in db.submissions
          /\ row.doc.consultant_id = A._id
          /\ row.doc.status = "INTERVIEW"
          /\ row.doc.jd_id = j._id
          /\ j.recruiter_id = R._id
          /\ row.doc.recruiter_id = R._id
          /\ row.jd_title = Some(j.title)

(* C12: a list/get of jobs, submissions or profiles whose caller passes   *)
(* the gate and whose primary document exists answers 200 with exactly    *)
(* the documents of the primary query, whatever accounts have been        *)
(* deleted and whichever secondary lookups raise; and the merge of a      *)
(* stored document whose reference is malformed keeps the document.       *)
C12_JoinNeverAborts ==
    /\ [][\A current_user \in AllAccounts(db), status \in StatusParams :
             (/\ last'.op = "get_jobs"
              /\ last'.caller = current_user._id
              /\ get_jobs(current_user, status))
             => LET st == ListingStatus(current_user.role, status) IN
                /\ last'.code = 200
                /\ {row.doc : row \in last'.jobs}
                     = {j \in db.job_descriptions :
                           st \in {None, Some("")} \/ Some(j.status) = st}]_vars
    /\ [][\A current_user \in AllAccounts(db), j \in db.job_descriptions :
             (/\ last'.op = "get_job"
              /\ last'.caller = current_user._id
              /\ get_job(current_user, j._id))
             => /\ last'.code = 200
                /\ {row.doc : row \in last'.rows} = {j}]_vars
    /\ [][\A current_user \in AllAccounts(db) :
             (/\ last'.op = "get_all_submissions"
              /\ last'.caller = current_user._id
              /\ current_user.role \in {"RECRUITER", "ADMIN"}
              /\ get_all_submissions(current_user))
             => /\ last'.code = 200
                /\ {row.doc : row \in last'.rows}
                     = {s \in db.submissions :
                           current_user.role = "ADMIN"
                             \/ s.recruiter_id = current_user._id}]_vars
    /\ [][\A current_user \in AllAccounts(db) :
             (/\ last'.op = "get_my_submissions"
              /\ last'.caller = current_user._id
              /\ current_user.role \in {"CONSULTANT", "ADMIN"}
              /\ get_my_submissions(current_user))
             => /\ last'.code = 200
                /\ {row.doc : row \in last'.rows}
                     = {s \in db.submissions : s.consultant_id = current_user._id}]_vars
    /\ [][\A current_user \in AllAccounts(db) :
             (/\ last'.op = "get_all_consultants"
              /\ last'.caller = current_user._id
              /\ current_user.role \in {"RECRUITER", "ADMIN"}
              /\ get_all_consultants(current_user))
             => /\ last'.code = 200
                /\ {row.doc : row \in last'.rows}
                     = {Some(pr) : pr \in db.consultant_profiles}]_vars
    /\ [][\A current_user \in AllAccounts(db), pr \in db.consultant_profiles :
             (/\ last'.op = "get_consultant_profile"
              /\ last'.caller = current_user._id
              /\ current_user.role \in {"RECRUITER", "ADMIN"}
              /\ get_consultant_profile(current_user, pr.consultant_id))
             => /\ last'.code = 200
                /\ {row.doc : row \in last'.rows} = {Some(pr)}]_vars
    /\ [][\A p \in Procs, current_user \in AllAccounts(db), pr \in db.consultant_profiles :
             (/\ last'.op = "consultants_get_my_profile"
              /\ last'.caller = current_user._id
              /\ current_user.role = "CONSULTANT"
              /\ pr.consultant_id = current_user._id
              /\ consultants_get_my_profile(p, current_user))
             => /\ last'.code = 200
                /\ {row.doc : row \in last'.rows} = {Some(pr)}]_vars
    /\ [][\A current_user \in AllAccounts(db), pr \in db.recruiter_profiles :
             (/\ last'.op = "recruiters_get_my_profile"
              /\ last'.caller = current_user._id
              /\ current_user.role = "RECRUITER"
              /\ pr.recruiter_id = current_user._id
              /\ recruiters_get_my_profile(current_user))
             => /\ last'.code = 200
                /\ {row.doc : row \in last'.rows} = {Some(pr)}]_vars
    /\ [](/\ \A j \in db.job_descriptions :
               LET doc == [j EXCEPT !.recruiter_id = MalformedId] IN
               merge_recruiter_data(db, doc).doc = doc
          /\ \A s \in db.submissions :
               LET doc == [s EXCEPT !.consultant_id = MalformedId,
                                    !.jd_id = MalformedId] IN
               /\ SubmissionRepository_get_all_row(db, doc).doc = doc
               /\ SubmissionRepository_get_by_consultant_row(db, doc).doc = doc
          /\ \A pr \in db.consultant_profiles :
               LET doc == [pr EXCEPT !.consultant_id = MalformedId] IN
               merge_user_data(db, doc).doc = Some(doc))

(* A recruiter's listing kept a submission although neither its           *)
(* consultant nor its job resolved                                        *)
C12_Witness ==
    /\ last.op = "get_all_submissions" /\ last.code = 200
    /\ \E row \in last.rows, R \in db.recruiters :
          /\ last.caller = R._id
          /\ row.doc \in db.submissions
          /\ row.consultant_name = Some("Unknown")
          /\ row.jd_title = Some("Unknown")
          /\ \A a \in db.consultants : a._id # row.doc.consultant_id
          /\ "job_descriptions" \in faults

(* C13: while no lookup raises, every joined field of every row the       *)
(* reads return over the stored documents is set (to the value of the     *)
(* referenced document, or to a placeholder when that document has been   *)
(* deleted): recruiter name and email of a job, consultant name and email *)
(* and job title of a submission in GET /submissions/, job title in       *)
(* GET /submissions/me, name and email of a consultant profile and of a   *)
(* recruiter profile.                                                     *)
C13_JoinedFieldsNeverUnset ==
    faults = {}
    => /\ \A j \in db.job_descriptions :
             LET row == merge_recruiter_data(db, j) IN
             row.recruiter_name # None /\ row.recruiter_email # None
       /\ \A s \in db.submissions :
             LET row == SubmissionRepository_get_all_row(db, s) IN
             /\ row.consultant_name # None
             /\ row.consultant_email # None
             /\ row.jd_title # None
       /\ \A s \in db.submissions :
             SubmissionRepository_get_by_consultant_row(db, s).jd_title # None
       /\ \A pr \in db.consultant_profiles :
             LET row == merge_user_data(db, pr) IN
             row.name # None /\ row.email # None
       /\ \A pr \in db.recruiter_profiles :
             \A row \in RecruiterRepository_get_profile_by_user_id(db, pr.recruiter_id) :
                row.name # None /\ row.email # None

(* The fields the users view shares with the role collections *)
Mirrored(d) ==
    [_id |-> d._id, email |-> d.email, name |-> d.name, role |-> d.role,
     is_active |-> d.is_active, updated_at |-> d.updated_at]

(* C14: while every write to the users view succeeds, after any sequence  *)
(* of create, update, delete, activate and deactivate calls the users     *)
(* view holds exactly one document per document of the union of the three *)
(* role collections, with the same _id and equal email, name, role,       *)
(* is_active and updated_at, and no other document.                       *)
C14_UsersMirrorsUnion ==
    Quiet
    => /\ {Mirrored(d) : d \in db.users} = {Mirrored(d) : d \in AllAccounts(db)}
       /\ Cardinality(db.users) = Cardinality(AllAccounts(db))
       /\ \A a, b \in db.users : a._id = b._id => a = b

(* C15: while the users collection refuses writes, every account call     *)
(* still performs its write on the role collection and returns its normal *)
(* result: a registration that passes the unique index stores the account *)
(* and returns it, update of a stored account applies the fields and      *)
(* returns the account, delete removes it and returns True, activate and  *)
(* deactivate set is_active and return True.  Nothing but the users view, *)
(* which stays as it was, shows the failure.                              *)
C15_MirrorFailureNeverPropagates ==
    /\ [][\A p \in Procs :
             (~users_up /\ reg[p] # None /\ CreateInsert(p))
             => LET user_data == CHOOSE u \in reg[p] : TRUE
                    c == CollectionOf(user_data.role)
                IN /\ db'.users = db.users
                   /\ (\A a \in db[c] : a.email # user_data.email)
                      => /\ db' = [db EXCEPT ![c] = @ \cup {AccountDoc(nextId, user_data)}]
                         /\ last' = [op |-> "create", code |-> 200, detail |-> "User"]]_vars
    /\ [][\A c \in AccountCollections, a \in AllAccounts(db),
             user_data \in MirrorUpdates \ {NoUpdate} :
             (/\ ~users_up
              /\ a \in db[c]
              /\ last'.op = "update"
              /\ Update(c, a._id, user_data))
             => /\ db' = [db EXCEPT ![c] = (@ \ {a}) \cup {ApplyUserUpdate(a, user_data)}]
                /\ last'.result = "User"]_vars
    /\ [][\A c \in AccountCollections, a \in AllAccounts(db) :
             (/\ ~users_up
              /\ a \in db[c]
              /\ last'.op = "delete"
              /\ Delete(c, a._id))
             => /\ db' = [db EXCEPT ![c] = @ \ {a}]
                /\ last'.result = "True"]_vars
    /\ [][\A c \in AccountCollections, a \in AllAccounts(db), active \in BOOLEAN :
             (/\ ~users_up
              /\ a \in db[c]
              /\ last'.op = IF active THEN "activate" ELSE "deactivate"
              /\ SetActive(c, a._id, active))
             => /\ db' = [db EXCEPT ![c] = (@ \ {a})
                             \cup {[a EXCEPT !.is_active = active, !.updated_at = now]}]
                /\ last'.result = "True"]_vars

(* An account was registered while the users collection refused writes *)
C15_Witness ==
    /\ ~users_up
    /\ Quiet
    /\ last = [op |-> "create", code |-> 200, detail |-> "User"]
    /\ \E a \in AllAccounts(db) : \A u \in db.users : u._id # a._id

(* The value a request gives a field, or the fallback when it gives none *)
Given(field, fallback) == IF field = None THEN fallback ELSE CHOOSE x \in field : TRUE

(* C16: the profile upsert.  On an existing profile every field the       *)
(* request gives replaces the stored value (a phone is stored on the      *)
(* consultant's account), every field it does not give keeps its value,   *)
(* and _id, owner id and created_at stay.  On the first insert for an     *)
(* account the new document carries the owner id, created_at = now, the   *)
(* fields given, and for those not given zero experience and an empty     *)
(* tech stack.  No step ever changes the created_at or the owner id of a  *)
(* stored profile, or removes one.                                        *)
C16_UpsertSetOnInsert ==
    /\ [][\A p \in Procs : \A rq \in ups[p] :
             (rq.stage = "query" /\ UpsertApply(p))
             => \A pr \in FindProfile(db, rq.c, rq.user_id) :
                   \E pr2 \in db'[rq.c] :
                      /\ db'[rq.c] = (db[rq.c] \ {pr}) \cup {pr2}
                      /\ pr2._id = pr._id
                      /\ pr2.created_at = pr.created_at
                      /\ ProfileKey(rq.c, pr2) = rq.user_id
                      /\ pr2.updated_at = now
                      /\ IF rq.c = "consultant_profiles"
                         THEN /\ pr2.experience_years
                                   = Given(rq.data.experience_years, pr.experience_years)
                              /\ pr2.tech_stack = Given(rq.data.tech_stack, pr.tech_stack)
                              /\ pr2.resume_path
                                   = IF rq.data.resume_path = None THEN pr.resume_path
                                     ELSE rq.data.resume_path
                              /\ \A a \in db.consultants :
                                    a._id = rq.user_id
                                    => \E a2 \in db'.consultants :
                                          /\ a2._id = a._id
                                          /\ a2.phone = IF rq.data.phone = None
                                                        THEN a.phone ELSE rq.data.phone
                         ELSE /\ pr2.company_name
                                   = IF rq.data.company_name = None THEN pr.company_name
                                     ELSE rq.data.company_name
                              /\ pr2.location
                                   = IF rq.data.location = None THEN pr.location
                                     ELSE rq.data.location]_vars
    /\ [][\A p \in Procs, retried \in BOOLEAN : \A rq \in ups[p] :
             (/\ rq.stage = "insert"
              /\ FindProfile(db, rq.c, rq.user_id) = None
              /\ UpsertInsert(p, retried))
             => \E pr2 \in db'[rq.c] :
                   /\ pr2 \notin db[rq.c]
                   /\ db'[rq.c] = db[rq.c] \cup {pr2}
                   /\ ProfileKey(rq.c, pr2) = rq.user_id
                   /\ pr2.created_at = now
                   /\ IF rq.c = "consultant_profiles"
                      THEN /\ pr2.experience_years = Given(rq.data.experience_years, 0)
                           /\ pr2.tech_stack = Given(rq.data.tech_stack, <<>>)
                           /\ pr2.resume_path = rq.data.resume_path
                      ELSE /\ pr2.company_name = rq.data.company_name
                           /\ pr2.location = rq.data.location]_vars
    /\ [][\A c \in ProfileCollections : \A pr \in db[c] :
             \E pr2 \in db'[c] :
                /\ pr2._id = pr._id
                /\ pr2.created_at = pr.created_at
                /\ ProfileKey(c, pr2) = ProfileKey(c, pr)]_vars

(* A consultant's profile, created earlier, after two later updates that  *)
(* each gave one field                                                    *)
C16_Witness ==
    /\ last.op = "consultants_update_my_profile" /\ last.code = 200
    /\ \E pr \in db.consultant_profiles :
          /\ pr.consultant_id = last.caller
          /\ pr.experience_years = 5
          /\ pr.tech_stack = <<"tla">>
          /\ pr.created_at = 0
          /\ pr.updated_at = MaxTime

(* Documents without their updated_at *)
Untimed(docs) == {[x EXCEPT !.updated_at = 0] : x \in docs}

(* The stored profile pr and the owner's account in d hold every value    *)
(* the request gives                                                      *)
Holds(d, c, pr, profile_data) ==
    IF c = "consultant_profiles"
    THEN /\ profile_data.experience_years \subseteq {pr.experience_years}
         /\ profile_data.tech_stack \subseteq {pr.tech_stack}
         /\ profile_data.resume_path \in {None, pr.resume_path}
         /\ \A a \in d.consultants :
               a._id = pr.consultant_id => profile_data.phone \in {None, a.phone}
    ELSE /\ profile_data.company_name \in {None, pr.company_name}
         /\ profile_data.location \in {None, pr.location}

(* C17: the profile upsert is idempotent.  An upsert that completes       *)
(* leaves a profile holding the values of its request; an upsert whose    *)
(* values the stored profile already holds (the same request once more)   *)
(* changes no document apart from updated_at and adds none; and for every *)
(* account and request, one application of the upsert followed by a       *)
(* second when the clock has moved on gives the profiles of the first     *)
(* apart from updated_at.                                                 *)
C17_UpsertIdempotent ==
    /\ [][\A p \in Procs, retried \in BOOLEAN : \A rq \in ups[p] :
             (/\ ups'[p] = None
              /\ ~(rq.stage = "insert" /\ ~retried
                     /\ UniqueIndexHit(db, rq.c, rq.user_id))
              /\ UpsertApply(p) \/ UpsertInsert(p, retried))
             => \E pr \in FindProfile(db', rq.c, rq.user_id) :
                   Holds(db', rq.c, pr, rq.data)]_vars
    /\ [][\A p \in Procs : \A rq \in ups[p] :
             (/\ rq.stage = "query"
              /\ \E pr \in FindProfile(db, rq.c, rq.user_id) :
                    Holds(db, rq.c, pr, rq.data)
              /\ UpsertApply(p))
             => /\ \A c \in ProfileCollections : Untimed(db'[c]) = Untimed(db[c])
                /\ Cardinality(db'[rq.c]) = Cardinality(db[rq.c])
                /\ Untimed(db'.consultants) = Untimed(db.consultants)]_vars
    /\ [][now' # now => \A user_id \in AccountIds(db), id \in {nextId} :
             /\ \A profile_data \in ConsultantProfileUpdate :
                   \A d1 \in {ConsultantRepository_create_or_update(
                                  db, id, user_id, profile_data)} :
                   \A d2 \in {ConsultantRepository_create_or_update(
                                  d1, id + 1, user_id, profile_data)'} :
                      /\ Untimed(d2.consultant_profiles) = Untimed(d1.consultant_profiles)
                      /\ Cardinality(d2.consultant_profiles)
                            = Cardinality(d1.consultant_profiles)
                      /\ Untimed(d2.consultants) = Untimed(d1.consultants)
             /\ \A profile_data \in RecruiterProfileUpdate :
                   \A d1 \in {RecruiterRepository_update_profile(
                                  db, id, user_id, profile_data)} :
                   \A d2 \in {RecruiterRepository_update_profile(
                                  d1, id + 1, user_id, profile_data)'} :
                      /\ Untimed(d2.recruiter_profiles) = Untimed(d1.recruiter_profiles)
                      /\ Cardinality(d2.recruiter_profiles)
                            = Cardinality(d1.recruiter_profiles)]_vars

(* A consultant's second PUT of a tech stack is about to run: the profile *)
(* already holds that tech stack from an earlier time                     *)
C17_Witness ==
    \E p \in Procs : \E rq \in ups[p] :
       /\ rq.op = "consultants_update_my_profile" /\ rq.stage = "query"
       /\ rq.data.tech_stack = Some(<<"tla">>)
       /\ \E pr \in FindProfile(db, rq.c, rq.user_id) :
             pr.tech_stack = <<"tla">> /\ pr.updated_at < now

(* C18: under any interleaving of overlapping profile reads, profile      *)
(* updates, resume uploads and submission creations there is at most one  *)
(* consultant profile per consultant id and at most one recruiter profile *)
(* per recruiter id.                                                      *)
C18_OneProfilePerAccount ==
    \A c \in ProfileCollections : \A pr1, pr2 \in db[c] :
       ProfileKey(c, pr1) = ProfileKey(c, pr2) => pr1 = pr2

(* Two requests both found no profile for the same account; one has       *)
(* inserted it and the insert of the other is still to come               *)
C18_Witness ==
    \E p \in Procs : \E rq \in ups[p] :
       /\ rq.stage = "insert"
       /\ rq.op \in {"create_submission", "upload_resume"}
       /\ FindProfile(db, rq.c, rq.user_id) # None

(* C19: once GET /consultants/me has answered a consultant, or            *)
(* GET /recruiters/me a recruiter, a profile document of the caller       *)
(* exists in the corresponding profile collection.                        *)
C19_ProfileCreatedOnFirstRead ==
    /\ (last.op = "consultants_get_my_profile" /\ last.code = 200)
          => FindProfile(db, "consultant_profiles", last.caller) # None
    /\ (last.op = "recruiters_get_my_profile" /\ last.code = 200)
          => FindProfile(db, "recruiter_profiles", last.caller) # None

(* The number of leading bytes of a password that reach the hash: all of  *)
(* a password of at most 72 bytes; of a longer one the first 72 when the  *)
(* 72nd is an ASCII byte, and otherwise the bytes before the last         *)
(* character that begins within the first 72                              *)
Kept(password) ==
    IF Len(password) <= PASSWORD_MAX_BYTES THEN Len(password)
    ELSE IF password[PASSWORD_MAX_BYTES] < 128 THEN PASSWORD_MAX_BYTES
    ELSE LET leads == {i \in 1..PASSWORD_MAX_BYTES : password[i] >= 192} IN
         IF leads = {} THEN 0
         ELSE (CHOOSE i \in leads : \A j \in leads : j <= i) - 1

(* C20 as stated: verification succeeds exactly when the two passwords    *)
(* are equal.                                                             *)
C20_Original ==
    last.op = "verify_password"
    => (last.is_valid <=> last.plain_password = last.password)

(* C20: verify_password(q, get_password_hash(p)) succeeds exactly when p  *)
(* and q agree on the bytes that reach the hash.  So it succeeds when     *)
(* q = p, whatever the length, and among passwords of at most 72 bytes it *)
(* fails when q differs from p.                                           *)
C20_RoundTrip ==
    last.op = "verify_password"
    => /\ last.is_valid
            <=> SubSeq(last.plain_password, 1, Kept(last.plain_password))
                  = SubSeq(last.password, 1, Kept(last.password))
       /\ last.plain_password = last.password => last.is_valid
       /\ (/\ Len(last.password) <= PASSWORD_MAX_BYTES
           /\ Len(last.plain_password) <= PASSWORD_MAX_BYTES
           /\ last.plain_password # last.password) => ~last.is_valid

(* A password of more than 72 bytes whose 72nd byte is inside a           *)
(* multi-byte character, verified against its own hash                    *)
C20_Witness ==
    /\ last.op = "verify_password" /\ last.is_valid
    /\ last.plain_password = last.password
    /\ Len(last.password) > PASSWORD_MAX_BYTES
    /\ last.password[PASSWORD_MAX_BYTES] >= 128

(* C21: within one account collection no two documents share an email,   *)
(* in every state and under any interleaving.  A create whose insert      *)
(* meets a document of its email in its role's collection (an overlapping *)
(* create of the same email and role has inserted first) fails with       *)
(* "Email already exists (duplicate key constraint)" and changes neither  *)
(* the role collection nor users; otherwise it adds its one document.     *)
C21_UniqueEmailPerCollection ==
    /\ [](\A c \in AccountCollections : \A a, b \in db[c] :
             a.email = b.email => a = b)
    /\ [][\A p \in Procs : \A user_data \in reg[p] :
             CreateInsert(p)
             => LET c == CollectionOf(user_data.role) IN
                IF FindByEmail(db[c], user_data.email) # None
                THEN /\ last'.code = 400
                     /\ last'.detail = "Email already exists (duplicate key constraint)"
                     /\ db' = db
                ELSE /\ last'.code = 200
                     /\ \E doc \in db'[c] :
                           /\ doc.email = user_data.email
                           /\ doc \notin db[c]
                           /\ db'[c] = db[c] \cup {doc}]_vars

(* Of two overlapping creates of one email and role the first has been    *)
(* inserted and the second refused by the index                           *)
C21_Witness ==
    /\ last.op = "create"
    /\ last.detail = "Email already exists (duplicate key constraint)"
    /\ \E c \in AccountCollections : \E a \in db[c] :
          a.email = "a@x.io" /\ a \in db.users

(* The accounts of an email in the first collection that has one, in the  *)
(* order recruiters, consultants, admins                                  *)
FirstInOrder(d, email) ==
    LET R == {a \in d.recruiters : a.email = email}
        C == {a \in d.consultants : a.email = email}
        A == {a \in d.admins : a.email = email}
    IN IF R # {} THEN R ELSE IF C # {} THEN C ELSE A

(* C22: get_user_by_email returns the recruiter with the email if there   *)
(* is one, otherwise the consultant, otherwise the admin, otherwise None; *)
(* a successful login issues its token to that account and a token        *)
(* resolves to that account, also when the email is in several            *)
(* collections.                                                           *)
C22_FixedOrderProbe ==
    /\ [](\A email \in Emails : get_user_by_email(db, email) = FirstInOrder(db, email))
    /\ [][\A user_credentials \in UserLogin :
             (last'.op = "login" /\ last'.code = 200 /\ Login(user_credentials))
             => \A t \in last'.token :
                   {t.uid} = {a._id : a \in FirstInOrder(db, user_credentials.email)}]_vars
    /\ [][\A cred \in Credentials :
             (last'.op = "me" /\ last'.code = 200 /\ GetMe(cred))
             => \A email \in cred.token.sub :
                   /\ last'.id = {a._id : a \in FirstInOrder(db, email)}
                   /\ last'.role = {a.role : a \in FirstInOrder(db, email)}]_vars

(* One email is registered as recruiter and as admin, and GET /auth/me    *)
(* with a token for it answered with the recruiter                        *)
C22_Witness ==
    /\ last.op = "me" /\ last.code = 200 /\ last.role = {"RECRUITER"}
    /\ \E r \in db.recruiters : \E a \in db.admins :
          r.email = a.email /\ last.id = {r._id}

(* C23: every stored job description has status OPEN or CLOSED. *)
C23_JobStatusOpenOrClosed ==
    \A jd \in db.job_descriptions : jd.status \in {"OPEN", "CLOSED"}

(* C24: every document of the recruiter collection has role RECRUITER,    *)
(* every document of the consultant collection role CONSULTANT and every  *)
(* document of the admin collection role ADMIN.                           *)
C24_AccountLivesInRoleCollection ==
    \A c \in AccountCollections : \A a \in db[c] : CollectionOf(a.role) = c

C26_CreateJobStampsOwnerAndDefaults ==
    [][\A current_user \in AllAccounts(db), body \in JobCreateBody :
          (last'.op = "create_job" /\ last'.caller = current_user._id
             /\ create_job(current_user, JobDescriptionCreate_of(body)))
          => IF last'.code = 200
             THEN \E jd \in db'.job_descriptions :
                     /\ jd \notin db.job_descriptions
                     /\ db'.job_descriptions = db.job_descriptions \cup {jd}
                     /\ last'.id = Some(jd._id)
                     /\ \A other \in db.job_descriptions : other._id # jd._id
                     /\ jd.recruiter_id = current_user._id
                     /\ jd.created_at = now /\ jd.updated_at = now
                     /\ jd.status = IF body.status = None THEN "OPEN"
                                    ELSE CHOOSE x \in body.status : TRUE
             ELSE db' = db]_vars

(* A second job has been created, by another caller than the first *)
C26_Witness ==
    /\ last.op = "create_job" /\ last.code = 200
    /\ \E jd1, jd2 \in db.job_descriptions :
          /\ last.id = Some(jd2._id) /\ jd2.recruiter_id = last.caller
          /\ jd2.status = "OPEN"
          /\ jd1.recruiter_id # jd2.recruiter_id

(* C27: whenever create_submission inserts its submission document, the   *)
(* stored status of the job it names is OPEN.                             *)
C27_JobOpenAtInsert ==
    [][\A p \in Procs : \A rq \in subm[p] :
          SubmitInsert(p)
          => \A jd \in FindById(db.job_descriptions, rq.jd_id) : jd.status = "OPEN"]_vars

(* C28: deactivation is enforced at login only.  A login for an account   *)
(* that is not active is refused.  GET /auth/me and POST /auth/refresh    *)
(* answer 200 exactly when the token's signature verifies, it has not     *)
(* expired and an account with its subject is stored, whether or not that *)
(* account is active; and a refresh that answers 200 issues a token for   *)
(* the same subject that expires a full lifetime after the request.  So a *)
(* deactivated account that refreshes before each expiry keeps access.    *)
C28_DeactivationOnlyAtLogin ==
    /\ [][\A user_credentials \in UserLogin :
             (last'.op = "login" /\ Login(user_credentials))
             => \A a \in get_user_by_email(db, user_credentials.email) :
                   ~a.is_active => last'.code = 401 /\ tokens' = tokens]_vars
    /\ [][\A cred \in Credentials :
             (last'.op \in {"me", "refresh"} /\ (GetMe(cred) \/ Refresh(cred)))
             => (last'.code = 200
                   <=> /\ cred.sig_ok
                       /\ cred.token.exp >= now
                       /\ \E a \in AllAccounts(db) : cred.token.sub = Some(a.email))]_vars
    /\ [][\A cred \in Credentials :
             (last'.op = "refresh" /\ last'.code = 200 /\ Refresh(cred))
             => \E t \in last'.token :
                   /\ t.sub = cred.token.sub
                   /\ t.exp = now + ACCESS_TOKEN_EXPIRE_MINUTES
                   /\ tokens' = tokens \cup {t}]_vars

(* GET /auth/me has answered a deactivated account after the token of its *)
(* login expired: it holds a token issued after the deactivation          *)
C28_Witness ==
    /\ last.op = "me" /\ last.code = 200
    /\ \E a \in db.consultants :
          /\ last.id = {a._id} /\ ~a.is_active
          /\ \E t \in tokens : t.exp < now
          /\ \E t \in tokens :
                t.exp >= now /\ t.exp - ACCESS_TOKEN_EXPIRE_MINUTES > a.updated_at

(* C29: create_submission writes the resume file before it inserts the    *)
(* submission and never removes it.  When the insert fails the request    *)
(* answers 500, no submission is stored and the file written stays in     *)
(* storage, referenced by no submission; when it succeeds the one new     *)
(* submission references the file.  No step removes a stored file.        *)
C29_OrphanedResumeOnInsertFailure ==
    /\ [][\A p \in Procs : \A rq \in subm[p] :
             SubmitInsert(p)
             => \E file \in uploads' \ uploads :
                   /\ uploads' = uploads \cup {file}
                   /\ file.owner = rq.consultant_id
                   /\ IF "submissions" \in faults
                      THEN /\ last'.code = 500
                           /\ db' = db
                           /\ \A s \in db'.submissions : s.resume_path # file
                      ELSE /\ last'.code = 200
                           /\ \E s \in db'.submissions :
                                 /\ db'.submissions = db.submissions \cup {s}
                                 /\ s \notin db.submissions
                                 /\ s.resume_path = file]_vars
    /\ [][uploads \subseteq uploads']_vars

(* A submission failed at the insert; its file is in storage and no       *)
(* submission references it, while a later submission succeeded           *)
C29_Witness ==
    /\ last.op = "create_submission" /\ last.code = 200
    /\ \E file \in uploads : \A s \in db.submissions : s.resume_path # file
    /\ \E s \in db.submissions : s.resume_path \in uploads

(* C30: no step removes a job or a submission; a job keeps its            *)
(* recruiter_id; a submission keeps its jd_id, consultant_id,             *)
(* recruiter_id, resume_path, recruiter_read and created_at, and a status *)
(* update leaves every other submission as it was.  In every state each   *)
(* submission's jd_id names a stored job whose recruiter_id is the        *)
(* submission's recruiter_id.                                             *)
C30_ReferencesFixedAtCreation ==
    /\ [][\A jd \in db.job_descriptions :
             \E jd2 \in db'.job_descriptions :
                jd2._id = jd._id /\ jd2.recruiter_id = jd.recruiter_id]_vars
    /\ [][\A s \in db.submissions :
             \E s2 \in db'.submissions :
                /\ s2._id = s._id
                /\ s2.jd_id = s.jd_id
                /\ s2.consultant_id = s.consultant_id
                /\ s2.recruiter_id = s.recruiter_id
                /\ s2.resume_path = s.resume_path
                /\ s2.recruiter_read = s.recruiter_read
                /\ s2.created_at = s.created_at
                /\ (last'.op = "update_status" /\ last'.id # Some(s._id)) => s2 = s]_vars
    /\ [](\A s \in db.submissions :
             \E jd \in db.job_descriptions :
                jd._id = s.jd_id /\ jd.recruiter_id = s.recruiter_id)

(* The submission has been moved to JOINED and its job closed; it still   *)
(* names the job and the job's recruiter                                  *)
C30_Witness ==
    /\ last.op \in {"update_status", "update_job"} /\ last.code = 200
    /\ \E s \in db.submissions : \E jd \in db.job_descriptions :
          /\ jd._id = s.jd_id /\ jd.status = "CLOSED"
          /\ s.status = "JOINED"
          /\ s.recruiter_id = jd.recruiter_id

====
